---- MODULE Spec2Model ----
(***************************************************************************)
(* Model of the schedule executor /api/schedules/execute.js: the due-scan  *)
(* over the `schedules` table, the per-schedule pipeline (device lookup,   *)
(* profile pushes, final update) and calculateNextExecutionTime.           *)
(*                                                                         *)
(* Time is counted in minutes since 1970-01-01T00:00Z; a JavaScript Date   *)
(* is such a number, an ISO string read back with new Date() is the same   *)
(* number, and the Date methods are computed on the UTC calendar (local    *)
(* time is taken to be UTC, without daylight-saving shifts).               *)
(***************************************************************************)
EXTENDS Integers, Sequences, FiniteSets, TLC

\* ------------------------------------------------------------------ bounds
\* invocations of the handler, rows of the schedules table, clock advances
NumRuns == 2
NumJobs == 2
MaxTicks == 2

Runs == 1..NumRuns
JobIds == 1..NumJobs

\* ------------------------------------------------------- the Date methods
MinPerDay == 24 * 60

Day(t) == t \div MinPerDay
TimeWithinDay(t) == t % MinPerDay

\* Date.prototype.getDay: 0 = Sunday .. 6 = Saturday (day 0 was a Thursday)
getDay(t) == (Day(t) + 4) % 7

\* the civil date (year, month 0..11, day of month 1..31) of a day number
CivilFromDays(d) ==
    LET z    == d + 719468
        era  == z \div 146097
        doe  == z - era * 146097
        yoe  == (doe - doe \div 1460 + doe \div 36524 - doe \div 146096) \div 365
        doy  == doe - (365 * yoe + yoe \div 4 - yoe \div 100)
        mp   == (5 * doy + 2) \div 153
        dom  == doy - (153 * mp + 2) \div 5 + 1
        m    == IF mp < 10 THEN mp + 3 ELSE mp - 9
        y    == yoe + era * 400 + (IF m <= 2 THEN 1 ELSE 0)
    IN  [year |-> y, month |-> m - 1, date |-> dom]

\* the day number of the first day of month `month` (0..11) of `year`
DaysFromCivil(year, month) ==
    LET m    == month + 1
        y    == year - (IF m <= 2 THEN 1 ELSE 0)
        era  == y \div 400
        yoe  == y - era * 400
        doy  == (153 * (IF m > 2 THEN m - 3 ELSE m + 9) + 2) \div 5
        doe  == yoe * 365 + yoe \div 4 - yoe \div 100 + doy
    IN  era * 146097 + doe - 719468

getDate(t) == CivilFromDays(Day(t)).date
getMonth(t) == CivilFromDays(Day(t)).month
getFullYear(t) == CivilFromDays(Day(t)).year

\* MakeDay of ECMAScript: a month outside 0..11 carries into the year, a day
\* of month outside the month carries into the neighbouring months
MakeDay(year, month, date) ==
    DaysFromCivil(year + (month \div 12), month % 12) + date - 1

\* Date.prototype.setDate(date)
setDate(t, date) ==
    MakeDay(getFullYear(t), getMonth(t), date) * MinPerDay + TimeWithinDay(t)

\* Date.prototype.setMonth(month)
setMonth(t, month) ==
    MakeDay(getFullYear(t), month, getDate(t)) * MinPerDay + TimeWithinDay(t)

\* ------------------------------------------- calculateNextExecutionTime
Null == <<>>
Some(v) == <<v>>
Val(o) == o[1]

SetMin(S) == CHOOSE x \in S : \A y \in S : x <= y

\* calculateNextExecutionTime with a default branch that falls through to
\* the next day
calculateNextExecutionTimeNoDefault(currentTime, pattern, recurrenceDays) ==
    IF pattern = "weekly"
    THEN IF recurrenceDays # Null /\ Val(recurrenceDays) # {}
         THEN LET currentDay == getDay(currentTime)
                  later == {day \in Val(recurrenceDays) : day > currentDay}
              IN  IF later = {}
                  THEN Some(setDate(currentTime, getDate(currentTime)
                           + (7 - currentDay + SetMin(Val(recurrenceDays)))))
                  ELSE Some(setDate(currentTime, getDate(currentTime)
                           + (SetMin(later) - currentDay)))
         ELSE Some(setDate(currentTime, getDate(currentTime) + 7))
    ELSE IF pattern = "monthly"
    THEN Some(setMonth(currentTime, getMonth(currentTime) + 1))
    ELSE Some(setDate(currentTime, getDate(currentTime) + 1))

\* calculateNextExecutionTime with getDay in the place of getDate at line 161
calculateNextExecutionTimeDayOfWeek(currentTime, pattern, recurrenceDays) ==
    LET nextTime == currentTime
    IN  CASE pattern = "daily" ->
               Some(setDate(nextTime, getDay(nextTime) + 1))
          [] pattern = "weekly" ->
               IF recurrenceDays # Null /\ Val(recurrenceDays) # {}
               THEN LET currentDay == getDay(nextTime)
                        sortedDays == Val(recurrenceDays)
                        later      == {day \in sortedDays : day > currentDay}
                    IN  IF later = {}
                        THEN Some(setDate(nextTime, getDate(nextTime)
                                      + (7 - currentDay + SetMin(sortedDays))))
                        ELSE Some(setDate(nextTime, getDate(nextTime)
                                      + (SetMin(later) - currentDay)))
               ELSE Some(setDate(nextTime, getDate(nextTime) + 7))
          [] pattern = "monthly" ->
               Some(setMonth(nextTime, getMonth(nextTime) + 1))
          [] OTHER -> Null

\* calculateNextExecutionTime with day >= currentDay at line 173
calculateNextExecutionTimeSameDay(currentTime, pattern, recurrenceDays) ==
    LET nextTime == currentTime
    IN  CASE pattern = "daily" ->
               Some(setDate(nextTime, getDate(nextTime) + 1))
          [] pattern = "weekly" ->
               IF recurrenceDays # Null /\ Val(recurrenceDays) # {}
               THEN LET currentDay == getDay(nextTime)
                        sortedDays == Val(recurrenceDays)
                        later      == {day \in sortedDays : day >= currentDay}
                    IN  IF later = {}
                        THEN Some(setDate(nextTime, getDate(nextTime)
                                      + (7 - currentDay + SetMin(sortedDays))))
                        ELSE Some(setDate(nextTime, getDate(nextTime)
                                      + (SetMin(later) - currentDay)))
               ELSE Some(setDate(nextTime, getDate(nextTime) + 7))
          [] pattern = "monthly" ->
               Some(setMonth(nextTime, getMonth(nextTime) + 1))
          [] OTHER -> Null

\* calculateNextExecutionTime whose weekly pattern without days moves to the
\* next day
calculateNextExecutionTimeNextDay(currentTime, pattern, recurrenceDays) ==
    LET nextTime == currentTime
    IN  CASE pattern = "daily" ->
               Some(setDate(nextTime, getDate(nextTime) + 1))
          [] pattern = "weekly" ->
               IF recurrenceDays # Null /\ Val(recurrenceDays) # {}
               THEN LET currentDay == getDay(nextTime)
                        sortedDays == Val(recurrenceDays)
                        later      == {day \in sortedDays : day > currentDay}
                    IN  IF later = {}
                        THEN Some(setDate(nextTime, getDate(nextTime)
                                      + (7 - currentDay + SetMin(sortedDays))))
                        ELSE Some(setDate(nextTime, getDate(nextTime)
                                      + (SetMin(later) - currentDay)))
               ELSE Some(setDate(nextTime, getDate(nextTime) + 1))
          [] pattern = "monthly" ->
               Some(setMonth(nextTime, getMonth(nextTime) + 1))
          [] OTHER -> Null

\* a calculator whose wrap to the following week forgets the 7 days
calculateNextExecutionTimeNoWrap(currentTime, pattern, recurrenceDays) ==
    LET nextTime == currentTime
    IN  CASE pattern = "daily" ->
               Some(setDate(nextTime, getDate(nextTime) + 1))
          [] pattern = "weekly" ->
               IF recurrenceDays # Null /\ Val(recurrenceDays) # {}
               THEN LET currentDay == getDay(nextTime)
                        sortedDays == Val(recurrenceDays)
                        later      == {day \in sortedDays : day > currentDay}
                    IN  IF later = {}
                        THEN Some(setDate(nextTime, getDate(nextTime)
                                      + (SetMin(sortedDays) - currentDay)))
                        ELSE Some(setDate(nextTime, getDate(nextTime)
                                      + (SetMin(later) - currentDay)))
               ELSE Some(setDate(nextTime, getDate(nextTime) + 7))
          [] pattern = "monthly" ->
               Some(setMonth(nextTime, getMonth(nextTime) + 1))
          [] OTHER -> Null

\* recurrenceDays is Null (not an array) or Some(set of day numbers); the
\* result is Null (the `return null` of the default branch) or Some(time)
calculateNextExecutionTime(currentTime, pattern, recurrenceDays) ==
    LET nextTime == currentTime
    IN  CASE pattern = "daily" ->
               Some(setDate(nextTime, getDate(nextTime) + 1))
          [] pattern = "weekly" ->
               IF recurrenceDays # Null /\ Val(recurrenceDays) # {}
               THEN LET currentDay == getDay(nextTime)
                        sortedDays == Val(recurrenceDays)
                        later      == {day \in sortedDays : day > currentDay}
                    IN  IF later = {}
                        THEN Some(setDate(nextTime, getDate(nextTime)
                                      + (7 - currentDay + SetMin(sortedDays))))
                        ELSE Some(setDate(nextTime, getDate(nextTime)
                                      + (SetMin(later) - currentDay)))
               ELSE Some(setDate(nextTime, getDate(nextTime) + 7))
          [] pattern = "monthly" ->
               Some(setMonth(nextTime, getMonth(nextTime) + 1))
          [] OTHER -> Null

\* ------------------------------------------------------------ the inputs
\* 2024-01-31T09:00Z, a Wednesday
T0 == (DaysFromCivil(2024, 0) + 31 - 1) * MinPerDay + 9 * 60

\* width of the look-back window of the due-scan, in minutes
WindowMinutes == 15

\* the device directory of the SimpleMDM account: id and attributes.name
Devices ==
    { [id |-> 1, name |-> <<"i", "P", "a", "d">>],
      [id |-> 2, name |-> <<"M", "a", "c">>] }

\* String.prototype.toLowerCase, one character at a time
LowerChar(c) ==
    CASE c = "P" -> "p" [] c = "A" -> "a" [] c = "D" -> "d"
      [] c = "M" -> "m" [] c = "I" -> "i" [] c = "C" -> "c"
      [] OTHER -> c
toLowerCase(str) == [i \in 1..Len(str) |-> LowerChar(str[i])]

\* String.prototype.includes
includes(str, sub) ==
    \E k \in 0..(Len(str) - Len(sub)) :
        \A i \in 1..Len(sub) : str[k + i] = sub[i]

\* the texts found in the device_filter column; "" is the empty column
FilterTexts ==
    {"", "{bad", "null", "{nameContains:PAD}", "{groupIds:[7]}",
     "{nameContains:PAD,groupIds:[7]}"}

\* JSON.parse(schedule.device_filter): it throws on a text that is no JSON,
\* and the text null parses to the value null
JSONparse(text) ==
    CASE text = "{nameContains:PAD}" ->
             [throws |-> FALSE, isNull |-> FALSE,
              nameContains |-> Some(<<"P", "A", "D">>), groupIds |-> Null]
      [] text = "{groupIds:[7]}" ->
             [throws |-> FALSE, isNull |-> FALSE, nameContains |-> Null,
              groupIds |-> Some({7})]
      [] text = "{nameContains:PAD,groupIds:[7]}" ->
             [throws |-> FALSE, isNull |-> FALSE,
              nameContains |-> Some(<<"P", "A", "D">>), groupIds |-> Some({7})]
      [] text = "null" ->
             [throws |-> FALSE, isNull |-> TRUE, nameContains |-> Null,
              groupIds |-> Null]
      [] OTHER ->
             [throws |-> TRUE, isNull |-> FALSE, nameContains |-> Null,
              groupIds |-> Null]

\* fetchAllDevices without the test of response.ok and without the catch,
\* against a directory that lists its devices in every answer
fetchAllDevicesUnchecked(ok) == Devices

\* fetchAllDevices: the devices of the directory when the request is
\* answered with a 2xx response; on any other response and on a transport
\* error the catch of line 216 returns no devices
fetchAllDevices(ok) == IF ok THEN Devices ELSE {}

\* a read of the filter that tolerates null (filter?.groupIds): the null
\* filter is then a filter without predicate
EvaluationThrowsNever(filter) == FALSE

\* fetchFilteredDevices reads filter.groupIds after the directory request
\* has returned: on the value null the read throws a TypeError, which the
\* catch of line 98 turns into no target device
EvaluationThrows(filter) == filter.isNull

\* fetchFilteredDevices comparing the names as they are written, without
\* toLowerCase
fetchFilteredDevicesCaseSensitive(filter, devicesData) ==
    IF filter.nameContains # Null
    THEN {device \in devicesData :
            includes(device.name, Val(filter.nameContains))}
    ELSE devicesData

\* fetchFilteredDevices with the groupIds branch filled in by a membership
\* test, for a directory whose devices are in no group
fetchFilteredDevicesByGroup(filter, devicesData) ==
    LET grouped == IF filter.groupIds # Null /\ Val(filter.groupIds) # {}
                   THEN {} ELSE devicesData
    IN  IF filter.nameContains # Null
        THEN {device \in grouped :
                includes(toLowerCase(device.name),
                         toLowerCase(Val(filter.nameContains)))}
        ELSE grouped

\* fetchFilteredDevices, after `devices = await fetchAllDevices(apiKey)`:
\* the groupIds branch is empty, nameContains keeps the devices whose
\* lower-cased name includes the lower-cased text
fetchFilteredDevices(filter, devicesData) ==
    IF filter.nameContains # Null
    THEN {device \in devicesData :
            includes(toLowerCase(device.name),
                     toLowerCase(Val(filter.nameContains)))}
    ELSE devicesData

\* -------------------------------------------------- the schedules table
Template(enabled, type, start, pattern, days, filter, last) ==
    [enabled |-> enabled, schedule_type |-> type, start_time |-> start,
     recurrence_pattern |-> pattern, recurrence_days |-> days,
     device_filter |-> filter, last_executed_at |-> last]

OneShot == Template(TRUE, "one_shot", T0, "", Null, "", Null)
OneShotDaily ==
    Template(TRUE, "one_shot", T0 - 1, "daily", Null, "{nameContains:PAD}", Null)
OneShotEdge ==
    Template(TRUE, "one_shot", T0 - WindowMinutes, "", Null, "{bad", Null)
OneShotLater ==
    Template(TRUE, "one_shot", T0 + 1, "none", Null, "{nameContains:PAD}", Null)
OneShotExecuted ==
    Template(TRUE, "one_shot", T0, "", Null, "{nameContains:PAD}", Some(T0 - 20))
DailyDisabled ==
    Template(FALSE, "recurring", T0, "daily", Null, "{nameContains:PAD}", Null)
Daily ==
    Template(TRUE, "recurring", T0, "daily", Null, "{nameContains:PAD}", Null)
WeeklyDays ==
    Template(TRUE, "recurring", T0 - 14, "weekly", Some({3, 5}),
             "{groupIds:[7]}", Null)
WeeklyNoDays ==
    Template(TRUE, "recurring", T0, "weekly", Some({}), "{bad", Null)
Monthly ==
    Template(TRUE, "recurring", T0, "monthly", Null, "{nameContains:PAD}", Null)
RecurringNone ==
    Template(TRUE, "recurring", T0, "none", Null, "{nameContains:PAD}", Null)
RecurringMissing ==
    Template(TRUE, "recurring", T0 - 1, "", Some({3}), "{bad", Null)
DailyBad ==
    Template(TRUE, "recurring", T0, "daily", Null, "{bad", Null)
OneShotNullFilter ==
    Template(TRUE, "one_shot", T0, "", Null, "null", Null)
DailyNameAndGroup ==
    Template(TRUE, "recurring", T0, "daily", Null,
             "{nameContains:PAD,groupIds:[7]}", Null)
RecurringOther ==
    Template(TRUE, "recurring", T0, "yearly", Null, "{nameContains:PAD}", Null)

Templates ==
    {OneShot, OneShotDaily, OneShotEdge, OneShotLater, OneShotExecuted,
     DailyDisabled, Daily, WeeklyDays, WeeklyNoDays, Monthly, RecurringNone,
     RecurringMissing, DailyBad, OneShotNullFilter, DailyNameAndGroup,
     RecurringOther}

\* the tables the executor starts on, as the rows of ids 1 and 2: any row
\* beside a row that is not due, and some pairs of rows that are both due
Tables ==
    (Templates \X {DailyDisabled, OneShotExecuted})
      \cup {<<OneShot, DailyBad>>, <<Daily, OneShotEdge>>,
            <<Monthly, RecurringMissing>>, <<OneShotLater, WeeklyNoDays>>}

Row(id, t) ==
    [id |-> id, profile_id |-> 100 + id, enabled |-> t.enabled,
     schedule_type |-> t.schedule_type, start_time |-> t.start_time,
     recurrence_pattern |-> t.recurrence_pattern,
     recurrence_days |-> t.recurrence_days,
     device_filter |-> t.device_filter,
     last_executed_at |-> t.last_executed_at]

\* process.env, as the handler reads it when a request arrives
Envs ==
    { [SCHEDULE_EXECUTOR_API_KEY |-> TRUE, SUPABASE |-> TRUE, SIMPLEMDM_API_KEY |-> TRUE],
      [SCHEDULE_EXECUTOR_API_KEY |-> FALSE, SUPABASE |-> TRUE, SIMPLEMDM_API_KEY |-> TRUE],
      [SCHEDULE_EXECUTOR_API_KEY |-> TRUE, SUPABASE |-> FALSE, SIMPLEMDM_API_KEY |-> TRUE],
      [SCHEDULE_EXECUTOR_API_KEY |-> TRUE, SUPABASE |-> TRUE, SIMPLEMDM_API_KEY |-> FALSE] }

\* the requests that reach the handler: method, whether x-api-key carries
\* the expected key, whether x-vercel-cron is 'true'
Requests ==
    [method : {"POST", "GET", "PUT"}, apiKeyMatches : BOOLEAN,
     isVercelCron : BOOLEAN]

\* how far the clock may advance in one step, in minutes
TickSteps == {1, WindowMinutes, MinPerDay}

VARIABLES
    clock,              \* the wall clock
    ticks,              \* how often the clock has advanced
    schedules,          \* the schedules table: id -> row
    pc,                 \* per run: idle, querying, selected, processing, done
    now,                \* per run: `now` of line 41
    schedulesToExecute, \* per run: the rows the due-scan returned, in order
    stage,              \* per run and id: none, fetching, pushing, returned
    updateData,         \* per run and id: the update computed at lines 71-86
    targetDevices,      \* per run and id: the resolved devices
    profileApplicationResults, \* per run and id: device id -> pending/ok/error
    results,            \* per run and id: the outcome of the pipeline
    response,           \* per run: the response sent
    pushed,             \* history: the push calls issued to SimpleMDM
    updates,            \* history: the updates sent to the store, and their fate
    overlapped,         \* history: per run, the runs in flight when it arrived
    scanned,            \* history: per run, the table as its due-scan read it
    table0,             \* history: the table before any run
    fetched,            \* history: per run and id, how the directory request ended
    gateReq,            \* the request every caller sends, or Null: any request
    gateEnv,            \* process.env of the deployment, or Null: any of Envs
    calcFirst,          \* the calculator alone: the first fire time
    calcPattern,        \* the calculator alone: the recurrence pattern
    calcDays,           \* the calculator alone: the recurrence days
    calcLast,           \* the calculator alone: the fire time it was last given
    calcNext,           \* the calculator alone: the fire time it last returned
    calcCount,          \* the calculator alone: how often it was applied
    policies,           \* the policy page: useState policies
    selectedPolicy,     \* the policy page: useState selectedPolicy
    geofences,          \* the policy page: useState geofences
    loaded,             \* the policy page: Null while getPolicies is awaited
    saving,             \* the policy page: the savePolicies calls in flight
    deleting,           \* the policy page: the deleteSelectedPolicy calls in flight
    issued,             \* history: the service calls the last step issued
    lastHandler,        \* history: the handler or continuation that ran last
    written,            \* history: a policy was created or updated on the page
    uuids,              \* the policy page: how many uuidv4() were drawn
    pageSteps           \* the policy page: how many handler calls were made

vars == <<clock, ticks, schedules, pc, now, schedulesToExecute, stage,
          updateData, targetDevices, profileApplicationResults, results,
          response, pushed, updates, overlapped, scanned, table0, fetched,
          gateReq, gateEnv, calcFirst, calcPattern, calcDays, calcLast, calcNext, calcCount,
          policies, selectedPolicy, geofences, loaded, saving, deleting,
          issued, lastHandler, written, uuids, pageSteps>>

calcvars == <<calcFirst, calcPattern, calcDays, calcLast, calcNext, calcCount>>

gatevars == <<gateReq, gateEnv>>

runvars == <<pc, now, schedulesToExecute, stage, updateData, targetDevices,
             profileApplicationResults, results, response>>

pagevars == <<policies, selectedPolicy, geofences, loaded, saving, deleting,
              issued, lastHandler, written, uuids, pageSteps>>

\* the page as mounted: the hooks hold their initial values and the
\* loadPolicies() of the mount effect is awaiting getPolicies()
PageInit ==
    /\ policies = <<>>
    /\ selectedPolicy = Null
    /\ geofences = <<>>
    /\ loaded = Null
    /\ saving = {}
    /\ deleting = {}
    /\ issued = {}
    /\ lastHandler = Null
    /\ written = FALSE
    /\ uuids = 0
    /\ pageSteps = 0

HandlerInit(tables) ==
    /\ clock = T0
    /\ ticks = 0
    /\ \E t \in tables :
          schedules = [id \in JobIds |->
              Row(id, IF id \in DOMAIN t THEN t[id] ELSE DailyDisabled)]
    /\ pc = [r \in Runs |-> "idle"]
    /\ now = [r \in Runs |-> Null]
    /\ schedulesToExecute = [r \in Runs |-> <<>>]
    /\ stage = [r \in Runs |-> [id \in JobIds |-> "none"]]
    /\ updateData = [r \in Runs |-> [id \in JobIds |-> Null]]
    /\ targetDevices = [r \in Runs |-> [id \in JobIds |-> {}]]
    /\ profileApplicationResults = [r \in Runs |-> [id \in JobIds |-> <<>>]]
    /\ results = [r \in Runs |-> [id \in JobIds |-> Null]]
    /\ response = [r \in Runs |-> Null]
    /\ pushed = {}
    /\ updates = {}
    /\ overlapped = [r \in Runs |-> {}]
    /\ scanned = [r \in Runs |-> Null]
    /\ table0 = schedules
    /\ fetched = [r \in Runs |-> [id \in JobIds |-> "none"]]

Init ==
    /\ HandlerInit(Tables)
    /\ gateReq = Null
    /\ gateEnv = Null
    /\ calcFirst = T0
    /\ calcPattern = ""
    /\ calcDays = Null
    /\ calcLast = Null
    /\ calcNext = Null
    /\ calcCount = 0
    /\ PageInit

\* ---------------------------------------------------------- the handler
\* the due-scan without .eq('enabled', true)
DueIdsAnyEnabled(nowv) ==
    {id \in JobIds :
        /\ schedules[id].start_time <= nowv
        /\ schedules[id].start_time > nowv - WindowMinutes
        /\ schedules[id].last_executed_at = Null}

\* the due-scan without .is('last_executed_at', null)
DueIdsAnyExecuted(nowv) ==
    {id \in JobIds :
        /\ schedules[id].enabled = TRUE
        /\ schedules[id].start_time <= nowv
        /\ schedules[id].start_time > nowv - WindowMinutes}

\* the due-scan with .gte in the place of .gt
DueIdsClosedWindow(nowv) ==
    {id \in JobIds :
        /\ schedules[id].enabled = TRUE
        /\ schedules[id].start_time <= nowv
        /\ schedules[id].start_time >= nowv - WindowMinutes
        /\ schedules[id].last_executed_at = Null}

\* the due-scan without .gt('start_time', pastWindow)
DueIdsNoPastWindow(nowv) ==
    {id \in JobIds :
        /\ schedules[id].enabled = TRUE
        /\ schedules[id].start_time <= nowv
        /\ schedules[id].last_executed_at = Null}

\* the ids of the rows the due-scan of lines 46-52 matches at time nowv
DueIds(nowv) ==
    {id \in JobIds :
        /\ schedules[id].enabled = TRUE
        /\ schedules[id].start_time <= nowv
        /\ schedules[id].start_time > nowv - WindowMinutes
        /\ schedules[id].last_executed_at = Null}

\* the due-scan without .order: the rows of S in any order
OrderedAnyhow(S) ==
    {seq \in [1..Cardinality(S) -> S] :
        \A i, j \in 1..Cardinality(S) : i # j => seq[i] # seq[j]}

\* .order('start_time', { ascending: true }): the rows of S in an ascending
\* order of start_time (rows with equal start_time come in any order)
Ordered(S) ==
    {seq \in [1..Cardinality(S) -> S] :
        /\ \A i, j \in 1..Cardinality(S) : i # j => seq[i] # seq[j]
        /\ \A i, j \in 1..Cardinality(S) :
              i < j => schedules[seq[i]].start_time <= schedules[seq[j]].start_time}

SelectedIds(r) == {schedulesToExecute[r][i].id : i \in DOMAIN schedulesToExecute[r]}

\* the row of id as the due-scan of run r read it
ScheduleOf(r, id) ==
    LET i == CHOOSE k \in DOMAIN schedulesToExecute[r] :
                 schedulesToExecute[r][k].id = id
    IN  schedulesToExecute[r][i]

\* lines 71-86 without the test of schedule_type
UpdateDataOfAnyType(schedule, nowv) ==
    LET nextTime == IF schedule.recurrence_pattern # ""
                    THEN calculateNextExecutionTime(schedule.start_time,
                             schedule.recurrence_pattern,
                             schedule.recurrence_days)
                    ELSE Null
    IN  IF nextTime # Null
        THEN [last_executed_at |-> Null, start_time |-> nextTime]
        ELSE [last_executed_at |-> Some(nowv), start_time |-> Null]

\* lines 71-86 with the next time computed from `now`, not from start_time
UpdateDataOfFromNow(schedule, nowv) ==
    LET base == [last_executed_at |-> Some(nowv), start_time |-> Null]
    IN  IF schedule.schedule_type = "recurring" /\ schedule.recurrence_pattern # ""
        THEN LET nextTime == calculateNextExecutionTime(nowv,
                                 schedule.recurrence_pattern,
                                 schedule.recurrence_days)
             IN  IF nextTime # Null
                 THEN [last_executed_at |-> Null, start_time |-> nextTime]
                 ELSE base
        ELSE base

\* lines 71-86: start_time is Null when updateData has no start_time key
UpdateDataOf(schedule, nowv) ==
    LET base == [last_executed_at |-> Some(nowv), start_time |-> Null]
    IN  IF schedule.schedule_type = "recurring" /\ schedule.recurrence_pattern # ""
        THEN LET nextTime == calculateNextExecutionTime(schedule.start_time,
                                 schedule.recurrence_pattern,
                                 schedule.recurrence_days)
             IN  IF nextTime # Null
                 THEN [last_executed_at |-> Null, start_time |-> nextTime]
                 ELSE base
        ELSE base

\* lines 92-94: a filter text that JSON.parse rejects ends in the catch of
\* line 98 before any request is made
FilterThrows(schedule) ==
    schedule.device_filter # "" /\ JSONparse(schedule.device_filter).throws

\* an update that writes start_time and leaves last_executed_at alone
UpdatedStartTimeOnly(row, data) ==
    [row EXCEPT !.start_time = IF data.start_time # Null
                               THEN Val(data.start_time) ELSE @]

\* an update that also disables the row it finalizes
UpdatedDisables(row, data) ==
    [row EXCEPT !.last_executed_at = data.last_executed_at,
                !.start_time = IF data.start_time # Null
                               THEN Val(data.start_time) ELSE @,
                !.enabled = FALSE]

\* an update that writes last_executed_at and leaves start_time alone
UpdatedLastExecutedOnly(row, data) ==
    [row EXCEPT !.last_executed_at = data.last_executed_at]

\* .update(updateData).eq('id', id): the row after the update
Updated(row, data) ==
    [row EXCEPT !.last_executed_at = data.last_executed_at,
                !.start_time = IF data.start_time # Null
                               THEN Val(data.start_time) ELSE @]

Status(code, error) ==
    [status |-> code, error |-> error, message |-> "", executed |-> Null,
     failed |-> Null, results |-> <<>>]

Finish(r, resp) ==
    /\ pc' = [pc EXCEPT ![r] = "done"]
    /\ response' = [response EXCEPT ![r] = Some(resp)]

\* the requests that may arrive and the environments they may meet
ArrivingRequests == IF gateReq = Null THEN Requests ELSE {Val(gateReq)}
DeployedEnvs == IF gateEnv = Null THEN Envs ELSE {Val(gateEnv)}

\* the handler without the check of lines 33-38
InvokeNoApiKeyCheck(r) ==
    /\ pc[r] = "idle"
    /\ \A q \in Runs : q < r => pc[q] # "idle"
    /\ \E req \in ArrivingRequests, env \in DeployedEnvs :
          IF req.method # "POST" /\ req.method # "GET"
          THEN Finish(r, Status(405, "Method not allowed")) /\ UNCHANGED now
          ELSE IF env.SCHEDULE_EXECUTOR_API_KEY /\ ~req.apiKeyMatches
                  /\ ~req.isVercelCron
          THEN Finish(r, Status(401, "Unauthorized")) /\ UNCHANGED now
          ELSE IF ~env.SUPABASE
          THEN Finish(r, Status(500, "Database configuration missing"))
               /\ UNCHANGED now
          ELSE /\ now' = [now EXCEPT ![r] = Some(clock)]
               /\ pc' = [pc EXCEPT ![r] = "querying"]
               /\ UNCHANGED response
    /\ overlapped' = [overlapped EXCEPT ![r] =
                          {q \in Runs : pc[q] \notin {"idle", "done"}}]
    /\ UNCHANGED <<clock, ticks, schedules, schedulesToExecute, stage,
                   updateData, targetDevices, profileApplicationResults,
                   results, pushed, updates, scanned, table0>>
    /\ UNCHANGED <<fetched, gatevars, calcvars, pagevars>>

\* lines 5-44: the method check, the API key check, the configuration
\* checks and `now = new Date()`. Runs are numbered in the order in which
\* their requests arrive.
Invoke(r) ==
    /\ pc[r] = "idle"
    /\ \A q \in Runs : q < r => pc[q] # "idle"
    /\ \E req \in ArrivingRequests, env \in DeployedEnvs :
          IF req.method # "POST" /\ req.method # "GET"
          THEN Finish(r, Status(405, "Method not allowed")) /\ UNCHANGED now
          ELSE IF env.SCHEDULE_EXECUTOR_API_KEY /\ ~req.apiKeyMatches
                  /\ ~req.isVercelCron
          THEN Finish(r, Status(401, "Unauthorized")) /\ UNCHANGED now
          ELSE IF ~env.SUPABASE
          THEN Finish(r, Status(500, "Database configuration missing"))
               /\ UNCHANGED now
          ELSE IF ~env.SIMPLEMDM_API_KEY
          THEN Finish(r, Status(500, "SimpleMDM API key not configured"))
               /\ UNCHANGED now
          ELSE /\ now' = [now EXCEPT ![r] = Some(clock)]
               /\ pc' = [pc EXCEPT ![r] = "querying"]
               /\ UNCHANGED response
    /\ overlapped' = [overlapped EXCEPT ![r] =
                          {q \in Runs : pc[q] \notin {"idle", "done"}}]
    /\ UNCHANGED <<clock, ticks, schedules, schedulesToExecute, stage,
                   updateData, targetDevices, profileApplicationResults,
                   results, pushed, updates, scanned, table0>>
    /\ UNCHANGED <<fetched, gatevars, calcvars, pagevars>>

\* the due-scan without the test of schedulesError (lines 55-58): the
\* missing rows are taken for an empty selection
SelectErrorUnchecked(r) ==
    /\ pc[r] = "querying"
    /\ \/ \E seq \in Ordered(DueIds(Val(now[r]))) :
             /\ schedulesToExecute' = [schedulesToExecute EXCEPT ![r] =
                    [i \in DOMAIN seq |-> schedules[seq[i]]]]
             /\ pc' = [pc EXCEPT ![r] = "selected"]
             /\ scanned' = [scanned EXCEPT ![r] = Some(schedules)]
             /\ UNCHANGED response
       \/ /\ Finish(r, [Status(200, "") EXCEPT !.message = "No schedules to execute"])
          /\ UNCHANGED <<schedulesToExecute, scanned>>
    /\ UNCHANGED <<clock, ticks, schedules, now, stage, updateData,
                   targetDevices, profileApplicationResults, results, pushed,
                   updates, overlapped, table0>>
    /\ UNCHANGED <<fetched, gatevars, calcvars, pagevars>>

\* lines 46-53: the store evaluates the due-scan, or fails
Select(r) ==
    /\ pc[r] = "querying"
    /\ \/ \E seq \in Ordered(DueIds(Val(now[r]))) :
             /\ schedulesToExecute' = [schedulesToExecute EXCEPT ![r] =
                    [i \in DOMAIN seq |-> schedules[seq[i]]]]
             /\ pc' = [pc EXCEPT ![r] = "selected"]
             /\ scanned' = [scanned EXCEPT ![r] = Some(schedules)]
             /\ UNCHANGED response
       \/ /\ Finish(r, Status(500, "Failed to fetch schedules"))
          /\ UNCHANGED <<schedulesToExecute, scanned>>
    /\ UNCHANGED <<clock, ticks, schedules, now, stage, updateData,
                   targetDevices, profileApplicationResults, results, pushed,
                   updates, overlapped, table0>>
    /\ UNCHANGED <<fetched, gatevars, calcvars, pagevars>>

\* the handler answering an empty selection with 404
DispatchEmptyIsError(r) ==
    /\ pc[r] = "selected"
    /\ IF schedulesToExecute[r] = <<>>
       THEN /\ Finish(r, Status(404, "No schedules to execute"))
            /\ UNCHANGED <<stage, updateData>>
       ELSE /\ pc' = [pc EXCEPT ![r] = "processing"]
            /\ updateData' = [updateData EXCEPT ![r] =
                  [id \in JobIds |->
                     IF id \in SelectedIds(r)
                     THEN Some(UpdateDataOf(ScheduleOf(r, id), Val(now[r])))
                     ELSE Null]]
            /\ stage' = [stage EXCEPT ![r] =
                  [id \in JobIds |->
                     IF id \notin SelectedIds(r) THEN "none"
                     ELSE IF FilterThrows(ScheduleOf(r, id)) THEN "pushing"
                     ELSE "fetching"]]
            /\ UNCHANGED response
    /\ UNCHANGED <<clock, ticks, schedules, now, schedulesToExecute,
                   targetDevices, profileApplicationResults, results, pushed,
                   updates, overlapped, scanned, table0>>
    /\ UNCHANGED <<fetched, gatevars, calcvars, pagevars>>

\* lines 55-107: the handler resumes with the rows. With no row it answers;
\* otherwise every pipeline runs up to its first await: updateData is
\* computed, and the device directory is requested unless the filter text
\* does not parse
Dispatch(r) ==
    /\ pc[r] = "selected"
    /\ IF schedulesToExecute[r] = <<>>
       THEN /\ Finish(r, [Status(200, "") EXCEPT !.message = "No schedules to execute"])
            /\ UNCHANGED <<stage, updateData>>
       ELSE /\ pc' = [pc EXCEPT ![r] = "processing"]
            /\ updateData' = [updateData EXCEPT ![r] =
                  [id \in JobIds |->
                     IF id \in SelectedIds(r)
                     THEN Some(UpdateDataOf(ScheduleOf(r, id), Val(now[r])))
                     ELSE Null]]
            /\ stage' = [stage EXCEPT ![r] =
                  [id \in JobIds |->
                     IF id \notin SelectedIds(r) THEN "none"
                     ELSE IF FilterThrows(ScheduleOf(r, id)) THEN "pushing"
                     ELSE "fetching"]]
            /\ UNCHANGED response
    /\ UNCHANGED <<clock, ticks, schedules, now, schedulesToExecute,
                   targetDevices, profileApplicationResults, results, pushed,
                   updates, overlapped, scanned, table0>>
    /\ UNCHANGED <<fetched, gatevars, calcvars, pagevars>>

\* the pipeline pushing to every device of the directory, not to the
\* filtered devices
FetchReturnPushesDirectory(r, id) ==
    /\ pc[r] = "processing"
    /\ stage[r][id] = "fetching"
    /\ \E ok \in BOOLEAN :
          LET schedule == ScheduleOf(r, id)
              devicesData == fetchAllDevices(ok)
              filter == JSONparse(schedule.device_filter)
              target == IF schedule.device_filter = "" THEN devicesData
                        ELSE IF EvaluationThrows(filter) THEN {}
                        ELSE fetchFilteredDevices(filter, devicesData)
          IN  /\ targetDevices' = [targetDevices EXCEPT ![r][id] = target]
              /\ fetched' = [fetched EXCEPT ![r][id] =
                                IF ok THEN "ok" ELSE "error"]
              /\ profileApplicationResults' =
                    [profileApplicationResults EXCEPT ![r][id] =
                        [d \in {device.id : device \in devicesData} |-> "pending"]]
              /\ pushed' = pushed \cup
                    {[run |-> r, scheduleId |-> id,
                      start_time |-> schedule.start_time,
                      profileId |-> schedule.profile_id,
                      deviceId |-> device.id] : device \in devicesData}
    /\ stage' = [stage EXCEPT ![r][id] = "pushing"]
    /\ UNCHANGED <<clock, ticks, schedules, pc, now, schedulesToExecute,
                   updateData, results, response, updates, overlapped,
                   scanned, table0>>
    /\ UNCHANGED <<gatevars, calcvars, pagevars>>

\* lines 96-114 and 200-245: the directory request of one pipeline returns
\* (ok, or a failure that fetchAllDevices turns into no devices), the filter
\* is applied and one push per target device is issued
FetchReturn(r, id) ==
    /\ pc[r] = "processing"
    /\ stage[r][id] = "fetching"
    /\ \E ok \in BOOLEAN :
          LET schedule == ScheduleOf(r, id)
              devicesData == fetchAllDevices(ok)
              filter == JSONparse(schedule.device_filter)
              target == IF schedule.device_filter = "" THEN devicesData
                        ELSE IF EvaluationThrows(filter) THEN {}
                        ELSE fetchFilteredDevices(filter, devicesData)
          IN  /\ targetDevices' = [targetDevices EXCEPT ![r][id] = target]
              /\ fetched' = [fetched EXCEPT ![r][id] =
                                IF ok THEN "ok" ELSE "error"]
              /\ profileApplicationResults' =
                    [profileApplicationResults EXCEPT ![r][id] =
                        [d \in {device.id : device \in target} |-> "pending"]]
              /\ pushed' = pushed \cup
                    {[run |-> r, scheduleId |-> id,
                      start_time |-> schedule.start_time,
                      profileId |-> schedule.profile_id,
                      deviceId |-> device.id] : device \in target}
    /\ stage' = [stage EXCEPT ![r][id] = "pushing"]
    /\ UNCHANGED <<clock, ticks, schedules, pc, now, schedulesToExecute,
                   updateData, results, response, updates, overlapped,
                   scanned, table0>>
    /\ UNCHANGED <<gatevars, calcvars, pagevars>>

\* lines 248-268: one push returns, with a 2xx response or with a failure
PushReturn(r, id, d) ==
    /\ pc[r] = "processing"
    /\ stage[r][id] = "pushing"
    /\ d \in DOMAIN profileApplicationResults[r][id]
    /\ profileApplicationResults[r][id][d] = "pending"
    /\ \E outcome \in {"ok", "error"} :
          profileApplicationResults' =
              [profileApplicationResults EXCEPT ![r][id][d] = outcome]
    /\ UNCHANGED <<clock, ticks, schedules, pc, now, schedulesToExecute,
                   stage, updateData, targetDevices, results, pushed>>
    /\ UNCHANGED <<response, updates, overlapped, scanned, table0>>
    /\ UNCHANGED <<fetched, gatevars, calcvars, pagevars>>

\* the pipeline with success: profileApplicationResults.every(r => r.success)
UpdateScheduleSuccessOfPushes(r, id) ==
    /\ pc[r] = "processing"
    /\ stage[r][id] = "pushing"
    /\ \A d \in DOMAIN profileApplicationResults[r][id] :
          profileApplicationResults[r][id][d] # "pending"
    /\ \/ /\ schedules' = [schedules EXCEPT ![id] =
                               Updated(@, Val(updateData[r][id]))]
          /\ updates' = updates \cup
                {[run |-> r, scheduleId |-> id,
                  data |-> Val(updateData[r][id]), ok |-> TRUE]}
          /\ results' = [results EXCEPT ![r][id] =
                Some([scheduleId |-> id,
                      profileId |-> Some(ScheduleOf(r, id).profile_id),
                      devicesCount |-> Some(Cardinality(targetDevices[r][id])),
                      success |-> \A d \in DOMAIN profileApplicationResults[r][id] :
                          profileApplicationResults[r][id][d] = "ok",
                      nextExecution |-> Val(updateData[r][id]).start_time])]
       \/ /\ UNCHANGED schedules
          /\ updates' = updates \cup
                {[run |-> r, scheduleId |-> id,
                  data |-> Val(updateData[r][id]), ok |-> FALSE]}
          /\ results' = [results EXCEPT ![r][id] =
                Some([scheduleId |-> id, profileId |-> Null,
                      devicesCount |-> Null, success |-> FALSE,
                      nextExecution |-> Null])]
    /\ stage' = [stage EXCEPT ![r][id] = "returned"]
    /\ UNCHANGED <<clock, ticks, pc, now, schedulesToExecute, updateData,
                   targetDevices, profileApplicationResults, response, pushed,
                   overlapped, scanned, table0>>
    /\ UNCHANGED <<fetched, gatevars, calcvars, pagevars>>

\* the pipeline without the await of line 110: the update does not wait
\* for the pushes
UpdateScheduleUnawaited(r, id) ==
    /\ pc[r] = "processing"
    /\ stage[r][id] = "pushing"
    /\ \/ /\ schedules' = [schedules EXCEPT ![id] =
                               Updated(@, Val(updateData[r][id]))]
          /\ updates' = updates \cup
                {[run |-> r, scheduleId |-> id,
                  data |-> Val(updateData[r][id]), ok |-> TRUE]}
          /\ results' = [results EXCEPT ![r][id] =
                Some([scheduleId |-> id,
                      profileId |-> Some(ScheduleOf(r, id).profile_id),
                      devicesCount |-> Some(Cardinality(targetDevices[r][id])),
                      success |-> TRUE,
                      nextExecution |-> Val(updateData[r][id]).start_time])]
       \/ /\ UNCHANGED schedules
          /\ updates' = updates \cup
                {[run |-> r, scheduleId |-> id,
                  data |-> Val(updateData[r][id]), ok |-> FALSE]}
          /\ results' = [results EXCEPT ![r][id] =
                Some([scheduleId |-> id, profileId |-> Null,
                      devicesCount |-> Null, success |-> FALSE,
                      nextExecution |-> Null])]
    /\ stage' = [stage EXCEPT ![r][id] = "returned"]
    /\ UNCHANGED <<clock, ticks, pc, now, schedulesToExecute, updateData,
                   targetDevices, profileApplicationResults, response, pushed,
                   overlapped, scanned, table0>>
    /\ UNCHANGED <<fetched, gatevars, calcvars, pagevars>>

\* the pipeline reporting schedule.start_time as nextExecution
UpdateScheduleReportsOldStart(r, id) ==
    /\ pc[r] = "processing"
    /\ stage[r][id] = "pushing"
    /\ \A d \in DOMAIN profileApplicationResults[r][id] :
          profileApplicationResults[r][id][d] # "pending"
    /\ \/ /\ schedules' = [schedules EXCEPT ![id] =
                               Updated(@, Val(updateData[r][id]))]
          /\ updates' = updates \cup
                {[run |-> r, scheduleId |-> id,
                  data |-> Val(updateData[r][id]), ok |-> TRUE]}
          /\ results' = [results EXCEPT ![r][id] =
                Some([scheduleId |-> id,
                      profileId |-> Some(ScheduleOf(r, id).profile_id),
                      devicesCount |-> Some(Cardinality(targetDevices[r][id])),
                      success |-> TRUE,
                      nextExecution |-> Some(ScheduleOf(r, id).start_time)])]
       \/ /\ UNCHANGED schedules
          /\ updates' = updates \cup
                {[run |-> r, scheduleId |-> id,
                  data |-> Val(updateData[r][id]), ok |-> FALSE]}
          /\ results' = [results EXCEPT ![r][id] =
                Some([scheduleId |-> id, profileId |-> Null,
                      devicesCount |-> Null, success |-> FALSE,
                      nextExecution |-> Null])]
    /\ stage' = [stage EXCEPT ![r][id] = "returned"]
    /\ UNCHANGED <<clock, ticks, pc, now, schedulesToExecute, updateData,
                   targetDevices, profileApplicationResults, response, pushed,
                   overlapped, scanned, table0>>
    /\ UNCHANGED <<fetched, gatevars, calcvars, pagevars>>

\* lines 116-141: once every push has returned the row is updated; the
\* pipeline returns its outcome, or the failure outcome when the update
\* fails
UpdateSchedule(r, id) ==
    /\ pc[r] = "processing"
    /\ stage[r][id] = "pushing"
    /\ \A d \in DOMAIN profileApplicationResults[r][id] :
          profileApplicationResults[r][id][d] # "pending"
    /\ \/ /\ schedules' = [schedules EXCEPT ![id] =
                               Updated(@, Val(updateData[r][id]))]
          /\ updates' = updates \cup
                {[run |-> r, scheduleId |-> id,
                  data |-> Val(updateData[r][id]), ok |-> TRUE]}
          /\ results' = [results EXCEPT ![r][id] =
                Some([scheduleId |-> id,
                      profileId |-> Some(ScheduleOf(r, id).profile_id),
                      devicesCount |-> Some(Cardinality(targetDevices[r][id])),
                      success |-> TRUE,
                      nextExecution |-> Val(updateData[r][id]).start_time])]
       \/ /\ UNCHANGED schedules
          /\ updates' = updates \cup
                {[run |-> r, scheduleId |-> id,
                  data |-> Val(updateData[r][id]), ok |-> FALSE]}
          /\ results' = [results EXCEPT ![r][id] =
                Some([scheduleId |-> id, profileId |-> Null,
                      devicesCount |-> Null, success |-> FALSE,
                      nextExecution |-> Null])]
    /\ stage' = [stage EXCEPT ![r][id] = "returned"]
    /\ UNCHANGED <<clock, ticks, pc, now, schedulesToExecute, updateData,
                   targetDevices, profileApplicationResults, response, pushed,
                   overlapped, scanned, table0>>
    /\ UNCHANGED <<fetched, gatevars, calcvars, pagevars>>

\* the response without the catch of line 134: a failed pipeline rejects
\* Promise.all and the handler answers from the catch of line 149
RespondAbort(r) ==
    /\ pc[r] = "processing"
    /\ \A id \in SelectedIds(r) : stage[r][id] = "returned"
    /\ LET list == [i \in DOMAIN schedulesToExecute[r] |->
                       Val(results[r][schedulesToExecute[r][i].id])]
       IN  IF \E i \in DOMAIN list : ~list[i].success
           THEN Finish(r, Status(500, "Schedule execution failed"))
           ELSE Finish(r, [status |-> 200, error |-> "", message |-> "",
                           executed |-> Some(Len(list)), failed |-> Some(0),
                           results |-> list])
    /\ UNCHANGED <<clock, ticks, schedules, now, schedulesToExecute, stage,
                   updateData, targetDevices, profileApplicationResults,
                   results, pushed, updates, overlapped, scanned, table0>>
    /\ UNCHANGED <<fetched, gatevars, calcvars, pagevars>>

\* the report with `failed` taken as the number of outcomes
RespondFailedIsLength(r) ==
    /\ pc[r] = "processing"
    /\ \A id \in SelectedIds(r) : stage[r][id] = "returned"
    /\ LET list == [i \in DOMAIN schedulesToExecute[r] |->
                       Val(results[r][schedulesToExecute[r][i].id])]
       IN  Finish(r, [status |-> 200, error |-> "", message |-> "",
                      executed |-> Some(Cardinality(
                          {i \in DOMAIN list : list[i].success})),
                      failed |-> Some(Len(list)),
                      results |-> list])
    /\ UNCHANGED <<clock, ticks, schedules, now, schedulesToExecute, stage,
                   updateData, targetDevices, profileApplicationResults,
                   results, pushed, updates, overlapped, scanned, table0>>
    /\ UNCHANGED <<fetched, gatevars, calcvars, pagevars>>

\* lines 142-148: every pipeline has returned; the report is sent
Respond(r) ==
    /\ pc[r] = "processing"
    /\ \A id \in SelectedIds(r) : stage[r][id] = "returned"
    /\ LET list == [i \in DOMAIN schedulesToExecute[r] |->
                       Val(results[r][schedulesToExecute[r][i].id])]
       IN  Finish(r, [status |-> 200, error |-> "", message |-> "",
                      executed |-> Some(Cardinality(
                          {i \in DOMAIN list : list[i].success})),
                      failed |-> Some(Cardinality(
                          {i \in DOMAIN list : ~list[i].success})),
                      results |-> list])
    /\ UNCHANGED <<clock, ticks, schedules, now, schedulesToExecute, stage,
                   updateData, targetDevices, profileApplicationResults,
                   results, pushed, updates, overlapped, scanned, table0>>
    /\ UNCHANGED <<fetched, gatevars, calcvars, pagevars>>

\* time passes; the clock is read only by line 41, so its advance is
\* followed while a request is still to arrive
Tick ==
    /\ ticks < MaxTicks
    /\ \E r \in Runs : pc[r] = "idle"
    /\ \E d \in TickSteps : clock' = clock + d
    /\ ticks' = ticks + 1
    /\ UNCHANGED <<schedules, pushed, updates, overlapped, scanned, table0>>
    /\ UNCHANGED <<fetched, gatevars, calcvars, pagevars>>
    /\ UNCHANGED runvars

Next ==
    \/ \E r \in Runs : Invoke(r)
    \/ \E r \in Runs : Select(r)
    \/ \E r \in Runs : Dispatch(r)
    \/ \E r \in Runs, id \in JobIds : FetchReturn(r, id)
    \/ \E r \in Runs, id \in JobIds, d \in {device.id : device \in Devices} :
          PushReturn(r, id, d)
    \/ \E r \in Runs, id \in JobIds : UpdateSchedule(r, id)
    \/ \E r \in Runs : Respond(r)
    \/ Tick

Spec == Init /\ [][Next]_vars

\* ------------------------------------------- one caller, one deployment
\* the handler in a deployment whose process.env is fixed, called by a
\* caller whose requests are all alike, on a table with one due row or with
\* none
GateTables == {<<OneShot, DailyDisabled>>, <<DailyDisabled, OneShotExecuted>>}

InitGate ==
    /\ HandlerInit(GateTables)
    /\ gateReq \in {Some(req) : req \in Requests}
    /\ gateEnv \in {Some(env) : env \in Envs}
    /\ calcFirst = T0
    /\ calcPattern = ""
    /\ calcDays = Null
    /\ calcLast = Null
    /\ calcNext = Null
    /\ calcCount = 0
    /\ PageInit

GateSpec == InitGate /\ [][Next]_vars

\* ------------------------------------------------ the calculator alone
\* calculateNextExecutionTime applied again and again to its own result, as
\* the re-arm of lines 76-85 does to start_time, from a first fire time, a
\* pattern and a day set drawn from the sets below
MaxApplications == 7

\* new Date(year, month, date) at `minutes` past midnight
At(year, month, date, minutes) ==
    (DaysFromCivil(year, month) + date - 1) * MinPerDay + minutes

\* first fire times: month ends and a year end, a leap day, every weekday,
\* at midnight, in the morning and in the last minute of the day
CalcTimes ==
    {At(ymd[1], ymd[2], ymd[3], m) :
        ymd \in {<<2023, 11, 29>>, <<2023, 11, 31>>, <<2024, 0, 1>>,
                 <<2024, 0, 15>>, <<2024, 0, 31>>, <<2024, 1, 28>>,
                 <<2024, 1, 29>>, <<2024, 2, 30>>, <<2024, 3, 30>>},
        m \in {0, 9 * 60, 23 * 60 + 59}}

CalcPatterns == {"daily", "weekly", "monthly", "none"}

\* recurrence_days: null, or an array of weekday indices
CalcDaySets == {Null} \cup {Some(S) : S \in SUBSET (0..6)}

InitCalc ==
    /\ HandlerInit({<<DailyDisabled, OneShotExecuted>>})
    /\ gateReq = Null
    /\ gateEnv = Null
    /\ calcFirst \in CalcTimes
    /\ calcPattern \in CalcPatterns
    /\ calcDays \in IF calcPattern = "weekly" THEN CalcDaySets ELSE {Null}
    /\ calcLast = Null
    /\ calcNext = Some(calcFirst)
    /\ calcCount = 0
    /\ PageInit

\* lines 76-84: the fire time becomes the calculator's result
Recalculate ==
    /\ calcCount < MaxApplications
    /\ calcNext # Null
    /\ calcLast' = calcNext
    /\ calcNext' = calculateNextExecutionTime(Val(calcNext), calcPattern,
                                               calcDays)
    /\ calcCount' = calcCount + 1
    /\ UNCHANGED <<calcFirst, calcPattern, calcDays>>
    /\ UNCHANGED <<clock, ticks, schedules, pushed, updates, overlapped,
                   scanned, table0, fetched, gatevars, pagevars>>
    /\ UNCHANGED runvars

NextCalc == Recalculate

CalcSpec == InitCalc /\ [][NextCalc]_vars

\* ------------------------------------------------------- the policy page
\* The Geofences component of the location-policy page: its state hooks
\* and its handlers. A handler call is one step; what an async function
\* does after its awaits is a later step, taken from the values its
\* closure captured. The form fields a handler reads are inputs of the
\* step. Of a policy the model keeps id, name, isDefault, locations and
\* ipRanges; of a geofence id, name, radius and zonePolicyId.
MaxPageSteps == 3
MaxInFlight == 2
MaxEntries == 1
MaxGeofences == 2

\* a JavaScript array as a set
Elements(list) == {list[i] : i \in DOMAIN list}

\* String.prototype.trim on the texts of the model, which carry white space
\* only when they are nothing else
trim(text) == IF text \in {" ", "  "} THEN "" ELSE text

\* a number that may be NaN: Null is NaN
isNaN(number) == number = Null

Place(displayName, latitude, longitude, radius) ==
    [displayName |-> displayName, latitude |-> latitude,
     longitude |-> longitude, radius |-> radius]

IpRange(displayName, ipAddress) ==
    [displayName |-> displayName, ipAddress |-> ipAddress]

Policy(id, name, isDefault, locations, ipRanges) ==
    [id |-> id, name |-> name, isDefault |-> isDefault,
     locations |-> locations, ipRanges |-> ipRanges]

\* the location the "Add Location" button appends, its degrees truncated
NewLocation == Place("New Location", Some(37), Some(-122), Some(100))

\* locations as the service may return them
Headquarters == Place("HQ", Some(48), Some(2), Some(250))
NoRadius == Place("Depot", Some(48), Some(2), Null)

\* `Office Network ${currentIpRanges.length + 1}`
OfficeNetwork(n) ==
    CASE n = 1 -> "Office Network 1"
      [] n = 2 -> "Office Network 2"
      [] OTHER -> "Office Network 3"

\* the policies getPolicies() may return: the fallback policy first or
\* last, policies with a GPS location, with an IP range, with a location
\* the edit dialog refuses, and one stored with neither
Fallback == Policy(1, "Default", TRUE, <<>>, Null)
Office == Policy(2, "Office", FALSE, <<Headquarters>>, Null)
Lan == Policy(3, "Lan", FALSE, <<>>, Some(<<IpRange("Main Office", "10.0.0.1")>>))
Depot == Policy(2, "Depot", FALSE, <<NoRadius>>, Some(<<>>))
Draft == Policy(3, "Draft", FALSE, <<>>, Some(<<>>))

PolicyTables ==
    {<<Fallback, Office, Lan>>, <<Depot, Fallback>>, <<Fallback, Draft>>}

LoadedIds == {policy.id : policy \in UNION {Elements(t) : t \in PolicyTables}}

\* uuidv4(): an id no policy and no geofence has
uuidv4 == Cardinality(LoadedIds) + uuids + 1

\* the ids a caller can name
KnownIds == 1..(Cardinality(LoadedIds) + uuids)

\* policies.find(p => p.id === id) of a list that has such a policy
Find(list, id) ==
    list[CHOOSE i \in DOMAIN list :
            /\ list[i].id = id
            /\ \A j \in DOMAIN list : j < i => list[j].id # id]

\* policies.filter(p => p.id !== id)
Without(list, id) ==
    LET Keep(policy) == policy.id # id
    IN  SelectSeq(list, Keep)

\* policies.map(p => p.id === policy.id ? policy : p)
Replaced(list, policy) ==
    [i \in DOMAIN list |->
        IF list[i].id = policy.id THEN policy ELSE list[i]]

\* geofences.map(g => g.zonePolicyId === id ? {...g, zonePolicyId: null} : g)
Unlinked(list, id) ==
    [i \in DOMAIN list |->
        IF list[i].zonePolicyId = Some(id)
        THEN [list[i] EXCEPT !.zonePolicyId = Null]
        ELSE list[i]]

InFlight == Cardinality(saving) + Cardinality(deleting)

\* what no step of the page touches
servervars == <<clock, ticks, schedules, pushed, updates, overlapped, scanned,
                table0, fetched, runvars, gatevars, calcvars>>

\* a handler is called with id, or with the policy of that id, and shows
\* `toast`: the title of its toast (the description where the title is
\* only 'Error' or 'Success'), "" when it shows none
Called(name, id, toast) ==
    /\ pageSteps < MaxPageSteps
    /\ pageSteps' = pageSteps + 1
    /\ written' = (written \/ name \in {"handleCreatePolicy",
                                         "handleUpdatePolicy"})
    /\ lastHandler' = Some([name |-> name, id |-> id, toast |-> toast])

\* a continuation or a dialog callback runs
Ran(name, toast) ==
    /\ lastHandler' = Some([name |-> name, id |-> Null, toast |-> toast])
    /\ UNCHANGED <<written, pageSteps>>

\* lines 630-647: getPolicies() has returned or thrown; selectedPolicy is
\* the null the mount captured
loadPolicies ==
    /\ loaded = Null
    /\ \E outcome \in {Some(t) : t \in PolicyTables} \cup {Null} :
          IF outcome = Null
          THEN /\ Ran("loadPolicies", "Failed to load policies")
               /\ loaded' = Some(<<>>)
               /\ UNCHANGED <<policies, selectedPolicy>>
          ELSE LET loadedPolicies == Val(outcome)
               IN  /\ Ran("loadPolicies", "")
                   /\ loaded' = outcome
                   /\ policies' = loadedPolicies
                   /\ selectedPolicy' = IF Len(loadedPolicies) > 0
                                        THEN Some(loadedPolicies[1])
                                        ELSE selectedPolicy
    /\ issued' = {}
    /\ UNCHANGED <<geofences, saving, deleting, uuids>>
    /\ UNCHANGED servervars

\* lines 650-667: the service calls of savePolicies(updatedPolicies) in
\* order; "save" is updatePolicy or createPolicy, whichever getPolicyById
\* decides
SaveCalls(call) ==
    LET updatedPolicies == call.updatedPolicies
        Gone(oldPolicy) ==
            \A policy \in Elements(updatedPolicies) : policy.id # oldPolicy.id
        gone == SelectSeq(call.policies, Gone)
    IN  [i \in DOMAIN updatedPolicies |->
            [op |-> "save",
             id |-> updatedPolicies[i].id,
             policy |-> Some(updatedPolicies[i])]]
        \o [i \in DOMAIN gone |->
            [op |-> "deletePolicy", id |-> gone[i].id, policy |-> Null]]

\* savePolicies(updatedPolicies) is entered: it runs on after its awaits
Save(updatedPolicies) ==
    saving' = saving \cup
                {[updatedPolicies |-> updatedPolicies, policies |-> policies]}

\* lines 650-682: a savePolicies call runs to its end: every service call
\* is made and the list is set, or a service call throws, the rest is
\* skipped and the catch reports it
savePolicies(call) ==
    /\ call \in saving
    /\ saving' = saving \ {call}
    /\ LET calls == SaveCalls(call)
       IN  \E n \in 0..Len(calls), thrown \in BOOLEAN :
              /\ Ran("savePolicies",
                     IF thrown THEN "Failed to save policies" ELSE "")
              /\ thrown => Len(calls) > 0
              /\ ~thrown => n = Len(calls)
              /\ issued' = {calls[i] : i \in 1..n}
              /\ policies' = IF thrown THEN policies
                             ELSE call.updatedPolicies
    /\ UNCHANGED <<selectedPolicy, geofences, loaded, deleting,
                   uuids>>
    /\ UNCHANGED servervars

\* lines 744-758: deleteSelectedPolicy up to its await
deleteSelectedPolicy ==
    /\ InFlight < MaxInFlight
    /\ IF selectedPolicy = Null
       THEN /\ Called("deleteSelectedPolicy", Null, "")
            /\ issued' = {}
            /\ UNCHANGED deleting
       ELSE IF Val(selectedPolicy).isDefault
       THEN /\ Called("deleteSelectedPolicy", Some(Val(selectedPolicy).id),
                      "Cannot delete the default policy")
            /\ issued' = {}
            /\ UNCHANGED deleting
       ELSE /\ Called("deleteSelectedPolicy", Some(Val(selectedPolicy).id),
                      "")
            /\ issued' = {[op |-> "deletePolicy",
                           id |-> Val(selectedPolicy).id, policy |-> Null]}
            /\ deleting' = deleting \cup
                  {[selectedPolicy |-> Val(selectedPolicy),
                    policies |-> policies]}
    /\ UNCHANGED <<policies, selectedPolicy, geofences, loaded,
                   saving, uuids>>
    /\ UNCHANGED servervars

\* lines 758-781: deletePolicy() has returned or thrown
deleteSelectedPolicyReturn(call) ==
    /\ call \in deleting
    /\ deleting' = deleting \ {call}
    /\ \E thrown \in BOOLEAN :
          IF thrown
          THEN /\ Ran("deleteSelectedPolicyReturn", "Failed to delete policy")
               /\ UNCHANGED <<policies, selectedPolicy>>
          ELSE LET updatedPolicies ==
                       Without(call.policies, call.selectedPolicy.id)
               IN  /\ Ran("deleteSelectedPolicyReturn",
                          "Policy deleted successfully")
                   /\ policies' = updatedPolicies
                   /\ selectedPolicy' = IF Len(updatedPolicies) > 0
                                        THEN Some(updatedPolicies[1])
                                        ELSE Null
    /\ issued' = {}
    /\ UNCHANGED <<geofences, loaded, saving, uuids>>
    /\ UNCHANGED servervars

\* handleDeletePolicy without the isDefault check of lines 984-992
handleDeletePolicyAnyPolicy(id) ==
    /\ InFlight < MaxInFlight
    /\ issued' = {}
    /\ IF \A policy \in Elements(policies) : policy.id # id
       THEN /\ Called("handleDeletePolicy", Some(id), "")
            /\ UNCHANGED <<policies, geofences, saving>>
       ELSE \E confirmed \in BOOLEAN :
               IF ~confirmed
               THEN /\ Called("handleDeletePolicy", Some(id), "")
                    /\ UNCHANGED <<policies, geofences, saving>>
               ELSE LET updatedPolicies == Without(policies, id)
                    IN  /\ Called("handleDeletePolicy", Some(id),
                                   "Policy Deleted")
                        /\ policies' = updatedPolicies
                        /\ Save(updatedPolicies)
                        /\ geofences' = Unlinked(geofences, id)
    /\ UNCHANGED <<selectedPolicy, loaded, deleting, uuids>>
    /\ UNCHANGED servervars

\* handleDeletePolicy without the unlinking of lines 1008-1015
handleDeletePolicyKeepsLinks(id) ==
    /\ InFlight < MaxInFlight
    /\ issued' = {}
    /\ IF \A policy \in Elements(policies) : policy.id # id
       THEN /\ Called("handleDeletePolicy", Some(id), "")
            /\ UNCHANGED <<policies, geofences, saving>>
       ELSE IF Find(policies, id).isDefault
       THEN /\ Called("handleDeletePolicy", Some(id),
                      "Cannot Delete Default Policy")
            /\ UNCHANGED <<policies, geofences, saving>>
       ELSE \E confirmed \in BOOLEAN :
               IF ~confirmed
               THEN /\ Called("handleDeletePolicy", Some(id), "")
                    /\ UNCHANGED <<policies, geofences, saving>>
               ELSE LET updatedPolicies == Without(policies, id)
                    IN  /\ Called("handleDeletePolicy", Some(id),
                                   "Policy Deleted")
                        /\ policies' = updatedPolicies
                        /\ Save(updatedPolicies)
                        /\ UNCHANGED geofences
    /\ UNCHANGED <<selectedPolicy, loaded, deleting, uuids>>
    /\ UNCHANGED servervars

\* lines 980-1021
handleDeletePolicy(id) ==
    /\ InFlight < MaxInFlight
    /\ issued' = {}
    /\ IF \A policy \in Elements(policies) : policy.id # id
       THEN /\ Called("handleDeletePolicy", Some(id), "")
            /\ UNCHANGED <<policies, geofences, saving>>
       ELSE IF Find(policies, id).isDefault
       THEN /\ Called("handleDeletePolicy", Some(id),
                      "Cannot Delete Default Policy")
            /\ UNCHANGED <<policies, geofences, saving>>
       ELSE \E confirmed \in BOOLEAN :
               IF ~confirmed
               THEN /\ Called("handleDeletePolicy", Some(id), "")
                    /\ UNCHANGED <<policies, geofences, saving>>
               ELSE LET updatedPolicies == Without(policies, id)
                    IN  /\ Called("handleDeletePolicy", Some(id),
                                   "Policy Deleted")
                        /\ policies' = updatedPolicies
                        /\ Save(updatedPolicies)
                        /\ geofences' = Unlinked(geofences, id)
    /\ UNCHANGED <<selectedPolicy, loaded, deleting, uuids>>
    /\ UNCHANGED servervars

\* lines 1023-1026 and 1494-1734: editingPolicy as the edit dialog can hold
\* it when "Save Changes" is pressed: the policy handleEditPolicy put
\* there, as it was, with a location appended by "Add Location", with its
\* IP addresses removed, or with one IP address added and left blank
Editings(policy) ==
    {policy,
     [policy EXCEPT !.locations = IF Len(@) < MaxEntries
                                  THEN Append(@, NewLocation) ELSE @],
     [policy EXCEPT !.ipRanges = Some(<<>>)],
     [policy EXCEPT !.ipRanges = Some(<<IpRange(OfficeNetwork(1), "")>>)]}

\* the policies the cards show
Editable == Elements(policies)

\* lines 914-952: the title of the toast the edit dialog shows for the
\* first location, "" when it accepts the location
LocationToast(location) ==
    IF trim(location.displayName) = "" THEN "Location Name Required"
    ELSE IF \/ isNaN(location.latitude)
            \/ Val(location.latitude) < -90
            \/ Val(location.latitude) > 90 THEN "Invalid Latitude"
    ELSE IF \/ isNaN(location.longitude)
            \/ Val(location.longitude) < -180
            \/ Val(location.longitude) > 180 THEN "Invalid Longitude"
    ELSE IF \/ isNaN(location.radius)
            \/ Val(location.radius) < 1 THEN "Invalid Radius"
    ELSE ""

\* lines 955-957
MissingLocationInformation(policy) ==
    /\ ~policy.isDefault
    /\ Len(policy.locations) = 0
    /\ (policy.ipRanges = Null \/ Len(Val(policy.ipRanges)) = 0)

\* handleUpdatePolicy without the check of lines 954-964
handleUpdatePolicyUnchecked(editingPolicy) ==
    /\ InFlight < MaxInFlight
    /\ issued' = {}
    /\ IF /\ ~editingPolicy.isDefault
          /\ Len(editingPolicy.locations) > 0
          /\ LocationToast(editingPolicy.locations[1]) # ""
       THEN /\ Called("handleUpdatePolicy", Some(editingPolicy.id),
                      LocationToast(editingPolicy.locations[1]))
            /\ UNCHANGED <<policies, saving>>
       ELSE LET updatedPolicies == Replaced(policies, editingPolicy)
            IN  /\ Called("handleUpdatePolicy", Some(editingPolicy.id),
                           "Policy Updated")
                /\ policies' = updatedPolicies
                /\ Save(updatedPolicies)
    /\ UNCHANGED <<selectedPolicy, geofences, loaded, deleting, uuids>>
    /\ UNCHANGED servervars

\* lines 909-978
handleUpdatePolicy(editingPolicy) ==
    /\ InFlight < MaxInFlight
    /\ issued' = {}
    /\ IF /\ ~editingPolicy.isDefault
          /\ Len(editingPolicy.locations) > 0
          /\ LocationToast(editingPolicy.locations[1]) # ""
       THEN /\ Called("handleUpdatePolicy", Some(editingPolicy.id),
                      LocationToast(editingPolicy.locations[1]))
            /\ UNCHANGED <<policies, saving>>
       ELSE IF MissingLocationInformation(editingPolicy)
       THEN /\ Called("handleUpdatePolicy", Some(editingPolicy.id),
                      "Missing Location Information")
            /\ UNCHANGED <<policies, saving>>
       ELSE LET updatedPolicies == Replaced(policies, editingPolicy)
            IN  /\ Called("handleUpdatePolicy", Some(editingPolicy.id),
                           "Policy Updated")
                /\ policies' = updatedPolicies
                /\ Save(updatedPolicies)
    /\ UNCHANGED <<selectedPolicy, geofences, loaded, deleting, uuids>>
    /\ UNCHANGED servervars

\* the fields of the "Create New Policy" dialog: the name, the location
\* picked or null, and the two inputs queried from the document (Null: the
\* element is not there)
PolicyNames == {" ", "Branch"}
PolicyLocations == {Null, Some(Headquarters)}
IpAddressInputs == {Null, Some(" "), Some("10.0.0.9")}
LocationNameInputs == {Null, Some(" ")}

\* lines 1040-1075: the policy handleCreatePolicy builds from the fields
NewPolicy(newPolicyName, newPolicyLocation, ipAddressInput, locationNameInput) ==
    Policy(uuidv4, newPolicyName, FALSE,
           IF newPolicyLocation # Null THEN <<Val(newPolicyLocation)>>
           ELSE <<>>,
           IF ipAddressInput # Null /\ trim(Val(ipAddressInput)) # ""
           THEN Some(<<IpRange(
                    IF locationNameInput # Null
                       /\ trim(Val(locationNameInput)) # ""
                    THEN trim(Val(locationNameInput))
                    ELSE "Office Network",
                    trim(Val(ipAddressInput)))>>)
           ELSE Null)

\* lines 1029-1102
handleCreatePolicy(newPolicyName, newPolicyLocation, ipAddressInput, locationNameInput) ==
    /\ InFlight < MaxInFlight
    /\ issued' = {}
    /\ IF trim(newPolicyName) = ""
       THEN /\ Called("handleCreatePolicy", Null, "Missing Information")
            /\ UNCHANGED <<policies, saving, uuids>>
       ELSE LET newPolicy == NewPolicy(newPolicyName, newPolicyLocation,
                                       ipAddressInput, locationNameInput)
                updatedPolicies == Append(policies, newPolicy)
            IN  /\ uuids' = uuids + 1
                /\ IF /\ Len(newPolicy.locations) = 0
                      /\ (newPolicy.ipRanges = Null
                          \/ Len(Val(newPolicy.ipRanges)) = 0)
                   THEN /\ Called("handleCreatePolicy", Some(newPolicy.id),
                                  "Missing Information")
                        /\ UNCHANGED <<policies, saving>>
                   ELSE /\ Called("handleCreatePolicy", Some(newPolicy.id),
                                  "Policy Created")
                        /\ policies' = updatedPolicies
                        /\ Save(updatedPolicies)
    /\ UNCHANGED <<selectedPolicy, geofences, loaded, deleting>>
    /\ UNCHANGED servervars

\* lines 853-873: handleSaveGeofence in the "create" mode, with a name and
\* coordinates given; linked is the policy picked, Null for none
handleSaveGeofence(linked) ==
    /\ Len(geofences) < MaxGeofences
    /\ linked \in {Null} \cup {Some(policy.id) : policy \in Elements(policies)}
    /\ Called("handleSaveGeofence", Null, "Geofence Added")
    /\ geofences' = Append(geofences,
          [id |-> uuidv4, name |-> "Gate", radius |-> 100,
           zonePolicyId |-> linked])
    /\ uuids' = uuids + 1
    /\ issued' = {}
    /\ UNCHANGED <<policies, selectedPolicy, loaded, saving, deleting>>
    /\ UNCHANGED servervars

NextPage ==
    \/ loadPolicies
    \/ \E call \in saving : savePolicies(call)
    \/ deleteSelectedPolicy
    \/ \E call \in deleting : deleteSelectedPolicyReturn(call)
    \/ \E id \in KnownIds : handleDeletePolicy(id)
    \/ \E policy \in Editable : \E editingPolicy \in Editings(policy) :
          handleUpdatePolicy(editingPolicy)
    \/ \E newPolicyName \in PolicyNames,
          newPolicyLocation \in PolicyLocations,
          ipAddressInput \in IpAddressInputs,
          locationNameInput \in LocationNameInputs :
          handleCreatePolicy(newPolicyName, newPolicyLocation,
                             ipAddressInput, locationNameInput)
    \/ \E linked \in {Null} \cup {Some(id) : id \in KnownIds} :
          handleSaveGeofence(linked)

InitPage ==
    /\ HandlerInit({<<DailyDisabled, OneShotExecuted>>})
    /\ gateReq = Null
    /\ gateEnv = Null
    /\ calcFirst = T0
    /\ calcPattern = ""
    /\ calcDays = Null
    /\ calcLast = Null
    /\ calcNext = Null
    /\ calcCount = 0
    /\ PageInit

PageSpec == InitPage /\ [][NextPage]_vars

\* ------------------------------------------------------------ properties
\* the row of id as the due-scan of run r read it
ScannedRow(r, id) == Val(scanned[r])[id]

\* the start_time of row id lies in the window (now - 15 min, now] of run r
InWindow(r, id) ==
    /\ schedules[id].start_time <= Val(now[r])
    /\ schedules[id].start_time > Val(now[r]) - WindowMinutes

\* run r has committed row id: its final update was applied by the store
Committed(r, id) ==
    \E u \in updates : u.run = r /\ u.scheduleId = id /\ u.ok

\* the step in which the store applies the final update of run r to row id
Commits(r, id) ==
    \E u \in updates' \ updates : u.run = r /\ u.scheduleId = id /\ u.ok

Recognized == {"daily", "weekly", "monthly"}

\* run q arrived after run r had answered
ArrivedAfter(q, r) == r < q /\ pc[q] # "idle" /\ r \notin overlapped[q]

\* run q arrived after run r had answered, and has evaluated its due-scan
\* at a time at which row id had its start_time in the window
ScannedAfter(q, r, id) ==
    /\ ArrivedAfter(q, r)
    /\ pc[q] = "done"
    /\ scanned[q] # Null
    /\ InWindow(q, id)

\* a row that was set (by a commit or from the start) stays set, keeps its
\* start_time, and is selected by no due-scan that reads it set nor by a
\* run that arrives after the run that committed it has answered
Terminal(id) ==
    /\ schedules[id].start_time = table0[id].start_time
    /\ (\/ table0[id].last_executed_at # Null
        \/ \E r \in Runs : Committed(r, id))
          => schedules[id].last_executed_at # Null
    /\ \A q \in Runs :
          (/\ scanned[q] # Null
           /\ \/ ScannedRow(q, id).last_executed_at # Null
              \/ \E r \in Runs : Committed(r, id) /\ ArrivedAfter(q, r))
            => id \notin SelectedIds(q)

\* C1: of two runs that overlap in time, at most one pushes the profile of
\* a job for one due occurrence (the job together with its start_time)
C1_NoDoublePush ==
    \A p, q \in pushed :
        (p.scheduleId = q.scheduleId /\ p.start_time = q.start_time)
            => p.run \notin overlapped[q.run]

\* C2: whenever a directory request or a push of a job is in flight, the
\* stored last_executed_at of the job is set (the job was claimed first)
C2_ClaimedBeforeRemoteCalls ==
    \A r \in Runs, id \in JobIds :
        (\/ stage[r][id] = "fetching"
         \/ /\ stage[r][id] = "pushing"
            /\ \E d \in DOMAIN profileApplicationResults[r][id] :
                  profileApplicationResults[r][id][d] = "pending")
            => schedules[id].last_executed_at # Null

\* C3: a row with enabled = false is in no run's selection, no push is
\* issued for it, and it is stored as it was before any run
C3_DisabledUntouched ==
    \A id \in JobIds :
        table0[id].enabled = FALSE =>
            /\ \A r \in Runs : id \notin SelectedIds(r)
            /\ \A p \in pushed : p.scheduleId # id
            /\ \A u \in updates : u.scheduleId # id
            /\ schedules[id] = table0[id]

\* a run has finished its work on a non-empty selection, made at a time at
\* which a disabled, unexecuted row had its start_time in the window
C3_Witness ==
    \E r \in Runs, id \in JobIds :
        /\ pc[r] = "done"
        /\ SelectedIds(r) # {}
        /\ schedules[id].enabled = FALSE
        /\ schedules[id].last_executed_at = Null
        /\ InWindow(r, id)

\* C4: a row whose last_executed_at is set when a run's due-scan is
\* evaluated is not in that run's selection, and a run neither pushes nor
\* updates a row outside its selection
C4_ExecutedNeverSelected ==
    \A r \in Runs, id \in JobIds :
        /\ (scanned[r] # Null /\ ScannedRow(r, id).last_executed_at # Null)
              => id \notin SelectedIds(r)
        /\ id \notin SelectedIds(r) =>
              /\ \A p \in pushed : ~(p.run = r /\ p.scheduleId = id)
              /\ \A u \in updates : ~(u.run = r /\ u.scheduleId = id)

\* a run has finished its work on a non-empty selection that leaves out an
\* enabled row with start_time in the window and last_executed_at set
C4_Witness ==
    \E r \in Runs, id \in JobIds :
        /\ pc[r] = "done"
        /\ SelectedIds(r) # {}
        /\ id \notin SelectedIds(r)
        /\ ScannedRow(r, id).enabled = TRUE
        /\ ScannedRow(r, id).last_executed_at # Null
        /\ InWindow(r, id)
        /\ schedules[id] = table0[id]

\* C5: a one_shot row never changes its start_time; once a run has
\* committed it, last_executed_at stays set, and no due-scan evaluated from
\* then on selects it, whatever its recurrence_pattern
C5_OneShotTerminal ==
    \A id \in JobIds :
        schedules[id].schedule_type = "one_shot" => Terminal(id)

\* a one_shot row with recurrence_pattern daily was committed by a run, and
\* a later run has scanned, with the row in its window, without selecting it
C5_Witness ==
    \E id \in JobIds, r, q \in Runs :
        /\ schedules[id].schedule_type = "one_shot"
        /\ schedules[id].recurrence_pattern = "daily"
        /\ Committed(r, id)
        /\ ScannedAfter(q, r, id)
        /\ id \notin SelectedIds(q)

\* C6 as stated: the due-scan selects exactly the enabled, unexecuted rows
\* with now - 15 min <= start_time <= now
C6_ClosedWindow ==
    \A r \in Runs :
        scanned[r] # Null =>
            SelectedIds(r) =
                {id \in JobIds :
                    /\ ScannedRow(r, id).enabled
                    /\ ScannedRow(r, id).last_executed_at = Null
                    /\ Val(now[r]) - WindowMinutes <= ScannedRow(r, id).start_time
                    /\ ScannedRow(r, id).start_time <= Val(now[r])}

\* C6 as amended: the due-scan selects exactly the enabled, unexecuted rows
\* with now - 15 min < start_time <= now
C6_HalfOpenWindow ==
    \A r \in Runs :
        scanned[r] # Null =>
            SelectedIds(r) =
                {id \in JobIds :
                    /\ ScannedRow(r, id).enabled
                    /\ ScannedRow(r, id).last_executed_at = Null
                    /\ Val(now[r]) - WindowMinutes < ScannedRow(r, id).start_time
                    /\ ScannedRow(r, id).start_time <= Val(now[r])}

\* a due-scan has selected a row with start_time = now and left out an
\* enabled, unexecuted row with start_time = now - 15 min
C6_Witness ==
    \E r \in Runs, id, other \in JobIds :
        /\ pc[r] = "selected"
        /\ ScannedRow(r, id).enabled
        /\ ScannedRow(r, id).last_executed_at = Null
        /\ ScannedRow(r, id).start_time = Val(now[r]) - WindowMinutes
        /\ id \notin SelectedIds(r)
        /\ other \in SelectedIds(r)
        /\ ScannedRow(r, other).start_time = Val(now[r])

\* C7: the commit of a recurring row with a recognized pattern leaves
\* last_executed_at null and start_time at the calculator's result for the
\* start_time stored before the commit, which is strictly later
C7_RearmAdvances ==
    [][\A r \in Runs, id \in JobIds :
          (/\ Commits(r, id)
           /\ schedules[id].schedule_type = "recurring"
           /\ schedules[id].recurrence_pattern \in Recognized)
            => /\ schedules'[id].last_executed_at = Null
               /\ Some(schedules'[id].start_time) =
                     calculateNextExecutionTime(schedules[id].start_time,
                         schedules[id].recurrence_pattern,
                         schedules[id].recurrence_days)
               /\ schedules'[id].start_time > schedules[id].start_time]_vars

\* C8: a recurring row whose pattern is not daily, weekly or monthly never
\* changes its start_time; once a run has committed it, last_executed_at
\* stays set, and no due-scan evaluated from then on selects it
C8_UnrecognizedTerminal ==
    \A id \in JobIds :
        (/\ schedules[id].schedule_type = "recurring"
         /\ schedules[id].recurrence_pattern \notin Recognized)
            => Terminal(id)

\* a recurring row with pattern none was committed by a run, and a later
\* run has scanned, with the row in its window, without selecting it
C8_Witness ==
    \E id \in JobIds, r, q \in Runs :
        /\ schedules[id].schedule_type = "recurring"
        /\ schedules[id].recurrence_pattern = "none"
        /\ Committed(r, id)
        /\ ScannedAfter(q, r, id)
        /\ id \notin SelectedIds(q)

\* C9: once a run whose final update of a row failed has answered, and no
\* other run has selected the row, the row's last_executed_at is set
C9_FailedCommitLeavesClaimed ==
    \A u \in updates :
        (/\ ~u.ok
         /\ pc[u.run] = "done"
         /\ \A q \in Runs : q # u.run => u.scheduleId \notin SelectedIds(q))
            => schedules[u.scheduleId].last_executed_at # Null

\* C10: a run that selected rows answers with the report; the report holds
\* one outcome per selected row; a row whose update failed has success =
\* false; every other row has the outcome and the update that its own row,
\* its own devices and `now` determine
C10_FailuresIsolated ==
    \A r \in Runs :
        (pc[r] = "done" /\ SelectedIds(r) # {}) =>
            LET resp == Val(response[r])
            IN  /\ resp.status = 200
                /\ resp.executed # Null
                /\ \A id \in SelectedIds(r) :
                      /\ Cardinality({i \in DOMAIN resp.results :
                             resp.results[i].scheduleId = id}) = 1
                      /\ \A i \in DOMAIN resp.results :
                            resp.results[i].scheduleId = id =>
                                LET o == resp.results[i]
                                    sch == ScheduleOf(r, id)
                                    data == UpdateDataOf(sch, Val(now[r]))
                                IN  IF \E u \in updates :
                                          u.run = r /\ u.scheduleId = id /\ ~u.ok
                                    THEN o.success = FALSE
                                    ELSE /\ o.success = TRUE
                                         /\ o.profileId = Some(sch.profile_id)
                                         /\ o.devicesCount =
                                              Some(Cardinality(targetDevices[r][id]))
                                         /\ o.nextExecution = data.start_time
                                         /\ [run |-> r, scheduleId |-> id,
                                             data |-> data, ok |-> TRUE] \in updates

\* a run has answered after the update of one selected row failed and the
\* update of another selected row succeeded
C10_Witness ==
    \E r \in Runs, id, other \in JobIds :
        /\ pc[r] = "done"
        /\ {id, other} \subseteq SelectedIds(r)
        /\ \E u \in updates : u.run = r /\ u.scheduleId = id /\ ~u.ok
        /\ \E u \in updates : u.run = r /\ u.scheduleId = other /\ u.ok

\* C11: in every report of a run that selected at least one job, the
\* results list holds exactly one outcome per processed job, executed is
\* the number of outcomes with success = true, failed the number with
\* success = false, and executed + failed is the length of results.
\* The report is kept apart from the answers that carry no counts: a run
\* that selected a job always ends with the report.
Report(r) == Val(response[r])
C11_ReportCounts ==
    \A r \in Runs :
        (pc[r] = "done" /\ SelectedIds(r) # {}) =>
            LET list == Report(r).results
                succeeded == {i \in DOMAIN list : list[i].success}
                failing == {i \in DOMAIN list : ~list[i].success}
            IN  /\ Report(r).status = 200
                /\ Len(list) = Cardinality(SelectedIds(r))
                /\ \A id \in SelectedIds(r) :
                      Cardinality({i \in DOMAIN list :
                                      list[i].scheduleId = id}) = 1
                /\ \A i \in DOMAIN list : list[i].scheduleId \in SelectedIds(r)
                /\ Report(r).executed = Some(Cardinality(succeeded))
                /\ Report(r).failed = Some(Cardinality(failing))
                /\ Val(Report(r).executed) + Val(Report(r).failed) = Len(list)
C11_Witness ==
    \E r \in Runs :
        /\ pc[r] = "done"
        /\ Cardinality(SelectedIds(r)) = 2
        /\ Report(r).executed = Some(1)
        /\ Report(r).failed = Some(1)
        /\ Len(Report(r).results) = 2

\* C12: in a single run where every selected job's final update succeeds,
\* the report has failed = 0 and executed = the number of selected jobs,
\* whether each job's device filter is valid, malformed or absent and
\* whatever the push results are; each one-shot job ends with
\* last_executed_at set, and each daily job ends with start_time exactly one
\* day later and last_executed_at null.
\* A single run: no other run has selected a row.
SingleRun(r) == \A q \in Runs \ {r} : SelectedIds(q) = {}
C12_AllWritesSucceed ==
    \A r \in Runs :
        (/\ pc[r] = "done"
         /\ SelectedIds(r) # {}
         /\ SingleRun(r)
         /\ \A id \in SelectedIds(r) : Committed(r, id)) =>
            /\ Report(r).failed = Some(0)
            /\ Report(r).executed = Some(Cardinality(SelectedIds(r)))
            /\ \A id \in SelectedIds(r) :
                  LET row == ScheduleOf(r, id)
                  IN  /\ row.schedule_type = "one_shot" =>
                            /\ schedules[id].last_executed_at = now[r]
                            /\ schedules[id].start_time = row.start_time
                      /\ (/\ row.schedule_type = "recurring"
                          /\ row.recurrence_pattern = "daily") =>
                            /\ schedules[id].start_time =
                                   row.start_time + MinPerDay
                            /\ schedules[id].last_executed_at = Null
\* one run has answered for a one-shot job without filter, one of whose
\* pushes failed, and for a daily job whose filter does not parse
C12_Witness ==
    \E r \in Runs, id, other \in JobIds :
        /\ pc[r] = "done"
        /\ SingleRun(r)
        /\ SelectedIds(r) = {id, other}
        /\ Committed(r, id) /\ Committed(r, other)
        /\ ScheduleOf(r, id).schedule_type = "one_shot"
        /\ ScheduleOf(r, id).device_filter = ""
        /\ \E d \in DOMAIN profileApplicationResults[r][id] :
              profileApplicationResults[r][id][d] = "error"
        /\ ScheduleOf(r, other).recurrence_pattern = "daily"
        /\ ScheduleOf(r, other).schedule_type = "recurring"
        /\ FilterThrows(ScheduleOf(r, other))
        /\ Report(r).executed = Some(2)

\* C13: a job whose device_filter is present but cannot be parsed or
\* evaluated resolves to zero target devices: the run issues no push for
\* it, does not fail, commits the job's state as usual, and reports the job
\* with success = true and devicesCount = 0.
\* A filter cannot be parsed when JSON.parse throws on its text, and cannot
\* be evaluated when the text parses to null, which has no properties.
Unusable(schedule) ==
    /\ schedule.device_filter # ""
    /\ \/ JSONparse(schedule.device_filter).throws
       \/ JSONparse(schedule.device_filter).isNull
C13_UnusableFilterNoDevices ==
    \A r \in Runs : \A id \in SelectedIds(r) :
        Unusable(ScheduleOf(r, id)) =>
            /\ targetDevices[r][id] = {}
            /\ \A p \in pushed : ~(p.run = r /\ p.scheduleId = id)
            /\ \A u \in updates :
                  (u.run = r /\ u.scheduleId = id) =>
                      u.data = UpdateDataOf(ScheduleOf(r, id), Val(now[r]))
            /\ stage[r][id] = "returned" =>
                  /\ \E u \in updates : u.run = r /\ u.scheduleId = id
                  /\ Val(results[r][id]).success = Committed(r, id)
                  /\ Committed(r, id) =>
                        Val(results[r][id]).devicesCount = Some(0)
\* a job whose filter is the text null has been committed and is reported
\* with success and no device, though the directory answered with devices
C13_Witness ==
    \E r \in Runs, id \in JobIds :
        /\ pc[r] = "done"
        /\ id \in SelectedIds(r)
        /\ ScheduleOf(r, id).device_filter = "null"
        /\ fetched[r][id] = "ok"
        /\ Committed(r, id)
        /\ \E i \in DOMAIN Report(r).results :
              /\ Report(r).results[i].scheduleId = id
              /\ Report(r).results[i].success
              /\ Report(r).results[i].devicesCount = Some(0)

\* C14: device resolution never raises to the job pipeline: with no filter
\* and a healthy directory it returns every device of the directory;
\* whenever the directory call fails, with or without a filter, it returns
\* the empty set, so the job pushes to no device rather than failing.
\* A pipeline returns the failure outcome only when its final update failed.
C14_ResolutionNeverRaises ==
    \A r \in Runs : \A id \in SelectedIds(r) :
        /\ (fetched[r][id] = "ok" /\ ScheduleOf(r, id).device_filter = "") =>
              targetDevices[r][id] = Devices
        /\ fetched[r][id] = "error" =>
              /\ targetDevices[r][id] = {}
              /\ \A p \in pushed : ~(p.run = r /\ p.scheduleId = id)
        /\ fetched[r][id] # "none" => stage[r][id] \in {"pushing", "returned"}
        /\ stage[r][id] = "returned" =>
              Val(results[r][id]).success = Committed(r, id)
\* the directory call of a job without filter failed; the job was committed
\* and is reported with success and no device
C14_Witness ==
    \E r \in Runs, id \in JobIds :
        /\ pc[r] = "done"
        /\ id \in SelectedIds(r)
        /\ ScheduleOf(r, id).device_filter = ""
        /\ fetched[r][id] = "error"
        /\ Committed(r, id)
        /\ Val(results[r][id]).success
        /\ Val(results[r][id]).devicesCount = Some(0)

\* C15: a job's success flag does not depend on the individual push
\* results: for any subset of its target devices whose push fails,
\* including all of them, the job reports success = true with devicesCount
\* equal to the number of resolved devices, provided the final update
\* succeeds.
C15_SuccessIgnoresPushes ==
    \A r \in Runs : \A id \in SelectedIds(r) :
        (stage[r][id] = "returned" /\ Committed(r, id)) =>
            /\ Val(results[r][id]).success
            /\ Val(results[r][id]).devicesCount =
                  Some(Cardinality(targetDevices[r][id]))
            /\ pc[r] = "done" =>
                  \E i \in DOMAIN Report(r).results :
                      Report(r).results[i] = Val(results[r][id])
\* every push of a job with two target devices failed, and the job is
\* reported with success and two devices
C15_Witness ==
    \E r \in Runs, id \in JobIds :
        /\ pc[r] = "done"
        /\ id \in SelectedIds(r)
        /\ Cardinality(targetDevices[r][id]) = 2
        /\ \A d \in DOMAIN profileApplicationResults[r][id] :
              profileApplicationResults[r][id][d] = "error"
        /\ Committed(r, id)
        /\ \E i \in DOMAIN Report(r).results :
              /\ Report(r).results[i].scheduleId = id
              /\ Report(r).results[i].success
              /\ Report(r).results[i].devicesCount = Some(2)

\* C16: within one job of one run, no push is issued before that job's
\* device resolution has completed, and the update that finalizes the job
\* happens only after every push of that job has completed or failed.
C16_PipelineOrder ==
    /\ \A p \in pushed :
          /\ stage[p.run][p.scheduleId] \in {"pushing", "returned"}
          /\ fetched[p.run][p.scheduleId] # "none"
          /\ p.deviceId \in {device.id :
                                device \in targetDevices[p.run][p.scheduleId]}
    /\ \A u \in updates :
          /\ stage[u.run][u.scheduleId] = "returned"
          /\ \A device \in targetDevices[u.run][u.scheduleId] :
                /\ \E p \in pushed : /\ p.run = u.run
                                      /\ p.scheduleId = u.scheduleId
                                      /\ p.deviceId = device.id
                /\ profileApplicationResults[u.run][u.scheduleId][device.id]
                      \in {"ok", "error"}
\* the update of a job was sent after its two pushes had returned, one with
\* success and one with a failure
C16_Witness ==
    \E u \in updates :
        /\ Cardinality(targetDevices[u.run][u.scheduleId]) = 2
        /\ \E d, e \in DOMAIN profileApplicationResults[u.run][u.scheduleId] :
              /\ profileApplicationResults[u.run][u.scheduleId][d] = "ok"
              /\ profileApplicationResults[u.run][u.scheduleId][e] = "error"

\* ------------------------------------------- the calculator's properties
\* the fire time the calculator was last given, and the one it returned
LastFire == Val(calcLast)
NextFire == Val(calcNext)
Applied(pattern) == calcPattern = pattern /\ calcCount > 0

\* C17: for the daily pattern the calculator returns the last fire time
\* plus exactly one calendar day with the same time of day, for every last
\* fire time, so applying it n times advances the date by exactly n days
\* (7 applications from 2024-01-01T09:00 give 2024-01-08T09:00), across
\* month and year ends.
C17_DailyOneDay ==
    Applied("daily") =>
        /\ calcNext # Null
        /\ Day(NextFire) = Day(LastFire) + 1
        /\ TimeWithinDay(NextFire) = TimeWithinDay(LastFire)
        /\ Day(NextFire) = Day(calcFirst) + calcCount
        /\ TimeWithinDay(NextFire) = TimeWithinDay(calcFirst)
        /\ (calcFirst = At(2024, 0, 1, 9 * 60) /\ calcCount = 7) =>
              NextFire = At(2024, 0, 8, 9 * 60)
\* seven applications from 2023-12-29T09:00 have crossed the year end
C17_Witness ==
    /\ Applied("daily")
    /\ calcFirst = At(2023, 11, 29, 9 * 60)
    /\ calcCount = 7
    /\ calcNext = Some(At(2024, 0, 5, 9 * 60))

\* C18: for the weekly pattern with a non-empty day set of indices in 0..6,
\* for every last fire time the calculator returns the earliest date
\* strictly after the last fire date whose weekday is in the set: the
\* smallest configured day greater than the current weekday in the same
\* week if one exists, otherwise the smallest configured day of the
\* following week (also when the only configured day is the current
\* weekday), with the time of day unchanged.
WeekdayOf(day) == getDay(day * MinPerDay)
C18_WeeklyEarliestConfiguredDay ==
    (Applied("weekly") /\ calcDays # Null /\ Val(calcDays) # {}) =>
        LET days == Val(calcDays)
            currentDay == WeekdayOf(Day(LastFire))
            later == {day \in days : day > currentDay}
        IN  /\ calcNext # Null
            /\ TimeWithinDay(NextFire) = TimeWithinDay(LastFire)
            /\ Day(NextFire) > Day(LastFire)
            /\ WeekdayOf(Day(NextFire)) \in days
            /\ \A day \in (Day(LastFire) + 1)..(Day(NextFire) - 1) :
                  WeekdayOf(day) \notin days
            /\ later # {} =>
                  /\ WeekdayOf(Day(NextFire)) = SetMin(later)
                  /\ Day(NextFire) - Day(LastFire) < 7 - currentDay
            /\ later = {} =>
                  /\ WeekdayOf(Day(NextFire)) = SetMin(days)
                  /\ Day(NextFire) - Day(LastFire) >= 7 - currentDay
\* the only configured day is the weekday of the last fire time, and the
\* calculator has returned the same weekday of the following week
C18_Witness ==
    /\ Applied("weekly")
    /\ calcDays = Some({WeekdayOf(Day(LastFire))})
    /\ Day(NextFire) = Day(LastFire) + 7

\* C19: for the weekly pattern with an empty or absent day set, the
\* calculator returns the last fire time plus exactly 7 days, on the same
\* weekday and at the same time of day, for every last fire time.
C19_WeeklyNoDaysSevenDays ==
    (Applied("weekly") /\ (calcDays = Null \/ calcDays = Some({}))) =>
        /\ calcNext # Null
        /\ NextFire = LastFire + 7 * MinPerDay
        /\ Day(NextFire) = Day(LastFire) + 7
        /\ WeekdayOf(Day(NextFire)) = WeekdayOf(Day(LastFire))
        /\ TimeWithinDay(NextFire) = TimeWithinDay(LastFire)
\* without a day set the calculator has moved a fire time of the last week
\* of a month seven days on, into the next month
C19_Witness ==
    /\ Applied("weekly")
    /\ calcDays = Null
    /\ getMonth(NextFire) # getMonth(LastFire)
    /\ NextFire = LastFire + 7 * MinPerDay

\* C20: for the monthly pattern and every last fire time, the calculator
\* returns a time in the month that follows the last fire time's month
\* (December rolling to January of the next year) with the same
\* day-of-month and the same time of day, for every day-of-month from 1 to
\* 31 (Jan 15 gives Feb 15).
C20_MonthlySameDayOfMonth ==
    Applied("monthly") =>
        /\ calcNext # Null
        /\ getMonth(NextFire) = (getMonth(LastFire) + 1) % 12
        /\ getFullYear(NextFire) =
              getFullYear(LastFire) + (IF getMonth(LastFire) = 11 THEN 1 ELSE 0)
        /\ getDate(NextFire) = getDate(LastFire)
        /\ TimeWithinDay(NextFire) = TimeWithinDay(LastFire)

\* ----------------------------------------------- the trigger boundary
\* what the caller sends and what the deployment holds, under GateSpec
Caller == Val(gateReq)
Deployment == Val(gateEnv)
\* run r has done no work: no due-scan, no store write, no remote call
NoWork(r) ==
    /\ now[r] = Null
    /\ scanned[r] = Null
    /\ SelectedIds(r) = {}
    /\ \A id \in JobIds : fetched[r][id] = "none"
    /\ \A p \in pushed : p.run # r
    /\ \A u \in updates : u.run # r

\* C21: a manually issued call to the trigger boundary that carries no
\* valid API key is rejected before any work: it selects no job, writes
\* nothing to the job store and issues no remote call, in every
\* configuration of the deployment; a call from the trusted periodic
\* trigger is always accepted.
\* A manual call without valid key: x-api-key is not the expected key and
\* x-vercel-cron is not 'true'. Accepted: not answered with 401.
C21_UnauthenticatedRejected ==
    gateReq # Null =>
        /\ (~Caller.apiKeyMatches /\ ~Caller.isVercelCron) =>
              \A r \in Runs :
                  /\ NoWork(r)
                  /\ pc[r] \in {"idle", "done"}
                  /\ pc[r] = "done" => Report(r).status \in {401, 405}
        /\ Caller.isVercelCron =>
              \A r \in Runs : pc[r] = "done" => Report(r).status # 401

\* C22: when the store credentials or the device-management API credential
\* are missing, the run ends with a failure response distinguishable from
\* a normal report and nothing executes: no due-scan, no store write and
\* no remote call is made.
C22_MissingConfigFails ==
    (gateEnv # Null /\ (~Deployment.SUPABASE \/ ~Deployment.SIMPLEMDM_API_KEY)) =>
        /\ schedules = table0
        /\ \A r \in Runs :
              /\ NoWork(r)
              /\ pc[r] \in {"idle", "done"}
              /\ pc[r] = "done" =>
                    /\ Report(r).status \in {405, 401, 500}
                    /\ Report(r).error # ""
                    /\ Report(r).executed = Null
                    /\ Report(r).results = <<>>
                    /\ (Caller.method \in {"POST", "GET"}
                          /\ (Caller.apiKeyMatches \/ Caller.isVercelCron)) =>
                             Report(r).status = 500
\* an authenticated POST to a deployment without the SimpleMDM key has
\* been answered with 500 while a row was due
C22_Witness ==
    /\ gateEnv # Null /\ gateReq # Null
    /\ ~Deployment.SIMPLEMDM_API_KEY
    /\ Caller.method = "POST" /\ Caller.apiKeyMatches
    /\ DueIds(clock) # {}
    /\ \E r \in Runs :
          /\ pc[r] = "done"
          /\ Report(r).status = 500
          /\ Report(r).error = "SimpleMDM API key not configured"

\* the run has issued nothing and written nothing after its due-scan
NoEffect(r) ==
    /\ \A id \in JobIds : fetched[r][id] = "none" /\ stage[r][id] = "none"
    /\ \A p \in pushed : p.run # r
    /\ \A u \in updates : u.run # r
    /\ (\A q \in Runs \ {r} : SelectedIds(q) = {}) => schedules = table0

\* C23: when the due-scan query on the job store fails, the run ends with a
\* failure response that carries no outcome list; no job is mutated and no
\* device-directory fetch or push is issued.
\* The due-scan of run r failed: the run took `now`, has ended, and the
\* store never evaluated its scan.
ScanFailed(r) == pc[r] = "done" /\ now[r] # Null /\ scanned[r] = Null
C23_ScanFailureFails ==
    \A r \in Runs :
        ScanFailed(r) =>
            /\ Report(r).status = 500
            /\ Report(r).error = "Failed to fetch schedules"
            /\ Report(r).results = <<>>
            /\ Report(r).executed = Null /\ Report(r).failed = Null
            /\ SelectedIds(r) = {}
            /\ NoEffect(r)
\* the due-scan of a run failed while a row was due
C23_Witness ==
    \E r \in Runs :
        /\ ScanFailed(r)
        /\ DueIds(Val(now[r])) # {}
        /\ Report(r).status = 500

\* C24: when no job matches the due-scan, the run returns a successful,
\* non-error response, writes nothing to the job store and issues no
\* remote call.
C24_EmptySelectionSucceeds ==
    \A r \in Runs :
        (pc[r] = "done" /\ scanned[r] # Null /\ SelectedIds(r) = {}) =>
            /\ Report(r).status = 200
            /\ Report(r).error = ""
            /\ Report(r).message = "No schedules to execute"
            /\ NoEffect(r)
\* a run has answered an empty due-scan after another run had executed
\* the only due row
C24_Witness ==
    \E r, q \in Runs :
        /\ pc[r] = "done" /\ scanned[r] # Null /\ SelectedIds(r) = {}
        /\ Report(r).status = 200
        /\ SelectedIds(q) # {}
        /\ pc[q] = "done"

\* C25: a run never deletes a job and never adds one; the only job fields
\* it ever writes are last_executed_at and start_time, and only on jobs it
\* selected: every job outside the selection, and every other field of
\* every job (id, enabled, schedule_type, recurrence_pattern,
\* recurrence_days, device_filter, profile_id), is the same after the run
\* as before.
C25_Frame ==
    /\ DOMAIN schedules = JobIds
    /\ \A id \in JobIds :
          /\ schedules[id] =
                [table0[id] EXCEPT
                    !.last_executed_at = schedules[id].last_executed_at,
                    !.start_time = schedules[id].start_time]
          /\ schedules[id] # table0[id] =>
                \E r \in Runs : id \in SelectedIds(r) /\ Committed(r, id)
    /\ \A u \in updates :
          /\ u.scheduleId \in SelectedIds(u.run)
          /\ DOMAIN u.data = {"last_executed_at", "start_time"}
\* a run has re-armed the row it selected, and the row beside it, which no
\* run selected, is as it was
C25_Witness ==
    \E r \in Runs, id, other \in JobIds :
        /\ pc[r] = "done"
        /\ Committed(r, id)
        /\ schedules[id].start_time # table0[id].start_time
        /\ \A q \in Runs : other \notin SelectedIds(q)
        /\ schedules[other] = table0[other]

\* C26: when two overlapping runs both select the same due job, the run
\* that loses the claim skips the job silently: its report holds no outcome
\* for that job, neither a success nor a failure, and the job does not
\* count in its executed or failed totals.
\* The report of run r holds an outcome for job id.
Reports(r, id) ==
    \E i \in DOMAIN Report(r).results : Report(r).results[i].scheduleId = id
C26_LoserSkipsSilently ==
    \A r, q \in Runs : \A id \in JobIds :
        (/\ r # q
         /\ q \in overlapped[r]
         /\ id \in SelectedIds(r) \cap SelectedIds(q)
         /\ ScheduleOf(r, id).start_time = ScheduleOf(q, id).start_time
         /\ pc[r] = "done" /\ pc[q] = "done") =>
            /\ ~(Reports(r, id) /\ Reports(q, id))
            /\ Val(Report(r).executed) + Val(Report(r).failed)
                  + Val(Report(q).executed) + Val(Report(q).failed)
                < Cardinality(SelectedIds(r)) + Cardinality(SelectedIds(q))

\* C27: filter fields other than the name-substring predicate have no
\* effect on device resolution: adding or removing a group-membership
\* field (groupIds) never changes the resolved set, and a well-formed
\* filter that carries no name-substring predicate resolves to the full
\* device directory.
\* The devices whose lower-cased name includes the lower-cased text.
NameMatches(text, devicesData) ==
    {device \in devicesData :
        \E k \in 0..(Len(device.name) - Len(text)) :
            \A i \in 1..Len(text) :
                LowerChar(device.name[k + i]) = LowerChar(text[i])}
C27_OnlyNameFilters ==
    \A r \in Runs : \A id \in SelectedIds(r) :
        LET text == ScheduleOf(r, id).device_filter
            filter == JSONparse(text)
            directory == IF fetched[r][id] = "ok" THEN Devices ELSE {}
        IN  (/\ fetched[r][id] # "none"
             /\ text # "" /\ ~filter.throws /\ ~filter.isNull) =>
                /\ filter.nameContains = Null =>
                      targetDevices[r][id] = directory
                /\ filter.nameContains # Null =>
                      targetDevices[r][id] =
                          NameMatches(Val(filter.nameContains), directory)
\* a filter with groupIds alone has resolved to both devices of the
\* directory, and the job has been reported with two devices
C27_Witness ==
    \E r \in Runs : \E id \in SelectedIds(r) :
        /\ ScheduleOf(r, id).device_filter = "{groupIds:[7]}"
        /\ fetched[r][id] = "ok"
        /\ targetDevices[r][id] = Devices
        /\ stage[r][id] = "returned"
        /\ Committed(r, id)
        /\ Val(results[r][id]).devicesCount = Some(2)

\* C28: for each processed job, the run issues exactly one push call per
\* resolved target device (profile = the job's profile_id, device = that
\* device's id) and none for any other device; the job's reported
\* devicesCount equals the number of push calls issued for it.
PushesOf(r, id) == {p \in pushed : p.run = r /\ p.scheduleId = id}
C28_OnePushPerDevice ==
    \A r \in Runs : \A id \in SelectedIds(r) :
        /\ \A p \in PushesOf(r, id) :
              /\ p.profileId = ScheduleOf(r, id).profile_id
              /\ \E device \in targetDevices[r][id] : device.id = p.deviceId
        /\ stage[r][id] \in {"pushing", "returned"} =>
              /\ \A device \in targetDevices[r][id] :
                    Cardinality({p \in PushesOf(r, id) :
                                    p.deviceId = device.id}) = 1
              /\ Cardinality(PushesOf(r, id)) =
                    Cardinality(targetDevices[r][id])
        /\ (stage[r][id] = "returned" /\ Val(results[r][id]).success) =>
              Val(results[r][id]).devicesCount =
                  Some(Cardinality(PushesOf(r, id)))
\* a job with a name filter was reported with one device: one push was
\* issued, to the device of that name, of the two in the directory
C28_Witness ==
    \E r \in Runs : \E id \in SelectedIds(r) :
        /\ pc[r] = "done"
        /\ fetched[r][id] = "ok"
        /\ ScheduleOf(r, id).device_filter = "{nameContains:PAD}"
        /\ {p.deviceId : p \in PushesOf(r, id)} = {1}
        /\ Val(results[r][id]).devicesCount = Some(1)

\* C29: the results list of a run is in ascending order of the jobs'
\* start_time as read by the due-scan, whatever order the jobs' pipelines
\* complete in.
C29_ResultsInStartOrder ==
    \A r \in Runs :
        (pc[r] = "done" /\ SelectedIds(r) # {}) =>
            LET list == Report(r).results
            IN  /\ Len(list) = Len(schedulesToExecute[r])
                /\ \A i \in DOMAIN list :
                      list[i].scheduleId = schedulesToExecute[r][i].id
                /\ \A i, j \in DOMAIN list :
                      i < j =>
                          ScannedRow(r, list[i].scheduleId).start_time
                            <= ScannedRow(r, list[j].scheduleId).start_time
\* the pipeline of the later job completed first: run q read the table
\* when run r had committed the later job b and not yet the earlier job a;
\* the report of r lists a before b
C29_Witness ==
    \E r, q \in Runs, a, b \in JobIds :
        /\ pc[r] = "done"
        /\ Len(Report(r).results) = 2
        /\ Report(r).results[1].scheduleId = a
        /\ Report(r).results[2].scheduleId = b
        /\ ScannedRow(r, a).start_time < ScannedRow(r, b).start_time
        /\ Committed(r, a) /\ Committed(r, b)
        /\ q # r /\ scanned[q] # Null
        /\ ScannedRow(q, a) = table0[a]
        /\ ScannedRow(q, b) # table0[b]
        /\ b \notin SelectedIds(q)

\* C30: in a successful outcome, the reported next fire time equals the
\* start_time the run committed for that job when the job was re-armed
\* (recurring with a daily, weekly or monthly pattern), and is null for
\* every job the run left terminal (one-shot, or recurring with no
\* computable next time).
\* The update run r sent for job id.
UpdateOf(r, id) == CHOOSE u \in updates : u.run = r /\ u.scheduleId = id
Rearmed(row) ==
    row.schedule_type = "recurring" /\ row.recurrence_pattern \in Recognized
C30_NextExecutionReported ==
    \A r \in Runs : \A id \in SelectedIds(r) :
        (stage[r][id] = "returned" /\ Val(results[r][id]).success) =>
            LET next == Val(results[r][id]).nextExecution
                row == ScannedRow(r, id)
            IN  /\ Committed(r, id)
                /\ Rearmed(row) =>
                      /\ next # Null
                      /\ next = UpdateOf(r, id).data.start_time
                      /\ UpdateOf(r, id).data.last_executed_at = Null
                      /\ SingleRun(r) => schedules[id].start_time = Val(next)
                /\ ~Rearmed(row) =>
                      /\ next = Null
                      /\ UpdateOf(r, id).data.start_time = Null
                      /\ UpdateOf(r, id).data.last_executed_at = now[r]
                      /\ schedules[id].start_time = row.start_time
\* one report holds a monthly job with the next fire time now stored in its
\* row, and a recurring job without pattern with no next fire time
C30_Witness ==
    \E r \in Runs, id, other \in JobIds :
        /\ pc[r] = "done" /\ SingleRun(r)
        /\ SelectedIds(r) = {id, other}
        /\ Committed(r, id) /\ Committed(r, other)
        /\ ScannedRow(r, id).recurrence_pattern = "monthly"
        /\ Val(results[r][id]).nextExecution = Some(schedules[id].start_time)
        /\ schedules[id].start_time > ScannedRow(r, id).start_time
        /\ ScannedRow(r, other).schedule_type = "recurring"
        /\ Val(results[r][other]).nextExecution = Null
        /\ Reports(r, id) /\ Reports(r, other)

\* C31: with a name-substring filter, the resolved device set is always a
\* subset of the device directory and holds exactly the devices whose name
\* contains the filter string when both are compared case-insensitively;
\* it never holds a device that is not in the directory.
\* Two characters are the same letter, whatever their case.
CasePairs ==
    {<<"p", "P">>, <<"a", "A">>, <<"d", "D">>, <<"m", "M">>, <<"i", "I">>,
     <<"c", "C">>}
SameLetter(a, b) == a = b \/ <<a, b>> \in CasePairs \/ <<b, a>> \in CasePairs
ContainsIgnoringCase(name, text) ==
    \E k \in 0..(Len(name) - Len(text)) :
        \A i \in 1..Len(text) : SameLetter(name[k + i], text[i])
C31_NameFilterExact ==
    \A r \in Runs : \A id \in SelectedIds(r) :
        LET filter == JSONparse(ScheduleOf(r, id).device_filter)
        IN  /\ targetDevices[r][id] \subseteq Devices
            /\ \A p \in PushesOf(r, id) :
                  \E device \in Devices : device.id = p.deviceId
            /\ (/\ fetched[r][id] # "none"
                /\ ScheduleOf(r, id).device_filter # ""
                /\ filter.nameContains # Null) =>
                   targetDevices[r][id] =
                       {device \in (IF fetched[r][id] = "ok" THEN Devices ELSE {}) :
                           ContainsIgnoringCase(device.name,
                                                Val(filter.nameContains))}
\* the filter text PAD has resolved to the device named iPad, and not to
\* the device named Mac
C31_Witness ==
    \E r \in Runs : \E id \in SelectedIds(r) :
        /\ fetched[r][id] = "ok"
        /\ JSONparse(ScheduleOf(r, id).device_filter).nameContains
              = Some(<<"P", "A", "D">>)
        /\ {device.name : device \in targetDevices[r][id]}
              = {<<"i", "P", "a", "d">>}
        /\ stage[r][id] = "returned"

\* C32: when two overlapping runs both process the same job and both
\* final updates succeed, the stored result does not depend on the
\* interleaving: a recurring job ends with start_time advanced by exactly
\* one recurrence period from the value both runs read (never by two
\* periods) and last_executed_at null, and a one-shot job ends with
\* last_executed_at non-null.
\* Runs r and q overlapped, read the same start_time of job id and both
\* committed it; no run that read another start_time committed it.
BothCommitted(r, q, id) ==
    /\ r # q
    /\ q \in overlapped[r]
    /\ id \in SelectedIds(r) \cap SelectedIds(q)
    /\ Committed(r, id) /\ Committed(q, id)
    /\ \A x \in Runs :
          (id \in SelectedIds(x) /\ Committed(x, id)) =>
              ScannedRow(x, id).start_time = ScannedRow(r, id).start_time
\* one recurrence period after time t, for the patterns of the table
OnePeriod(row) ==
    CASE row.recurrence_pattern = "daily" -> MinPerDay
      [] row.recurrence_pattern = "weekly"
           /\ row.recurrence_days \in {Null, Some({})} -> 7 * MinPerDay
      [] row.recurrence_pattern = "weekly" ->
           MinPerDay * (CHOOSE n \in 1..7 :
               /\ WeekdayOf(Day(row.start_time) + n) \in Val(row.recurrence_days)
               /\ \A m \in 1..(n - 1) :
                     WeekdayOf(Day(row.start_time) + m)
                         \notin Val(row.recurrence_days))
      [] row.recurrence_pattern = "monthly" ->
           setMonth(row.start_time, getMonth(row.start_time) + 1)
               - row.start_time
C32_OverlapIdempotent ==
    \A r, q \in Runs : \A id \in JobIds :
        BothCommitted(r, q, id) =>
            LET row == ScannedRow(r, id)
            IN  /\ Rearmed(row) =>
                      /\ schedules[id].start_time = row.start_time + OnePeriod(row)
                      /\ schedules[id].last_executed_at = Null
                      /\ UpdateOf(r, id).data = UpdateOf(q, id).data
                /\ row.schedule_type = "one_shot" =>
                      /\ schedules[id].last_executed_at # Null
                      /\ schedules[id].start_time = row.start_time
\* two overlapping runs with different `now` have both committed a daily
\* job they read with the same start_time
C32_Witness ==
    \E r, q \in Runs, id \in JobIds :
        /\ BothCommitted(r, q, id)
        /\ now[r] # now[q]
        /\ ScannedRow(r, id).recurrence_pattern = "daily"
        /\ Rearmed(ScannedRow(r, id))
        /\ pc[r] = "done" /\ pc[q] = "done"

\* C33: an enabled, unclaimed job whose start_time is earlier than
\* now - 15 minutes at the time of a run is not selected by that run nor,
\* since time only moves forward, by any later run: if no run occurs
\* within 15 minutes after a job's start_time, the job is never executed
\* and its state never changes.
\* Run r took its `now` within 15 minutes after the first start_time of id.
OccursInTime(r, id) ==
    /\ now[r] # Null
    /\ Val(now[r]) >= table0[id].start_time
    /\ Val(now[r]) <= table0[id].start_time + 15
C33_MissedWindowNeverRuns ==
    /\ \A r, q \in Runs :
          (r < q /\ now[r] # Null /\ now[q] # Null) =>
              Val(now[r]) <= Val(now[q])
    /\ \A r \in Runs : \A id \in JobIds :
          (/\ scanned[r] # Null
           /\ ScannedRow(r, id).enabled
           /\ ScannedRow(r, id).last_executed_at = Null
           /\ ScannedRow(r, id).start_time < Val(now[r]) - 15) =>
              id \notin SelectedIds(r)
    /\ \A id \in JobIds :
          (\A r \in Runs : ~OccursInTime(r, id)) =>
              /\ schedules[id] = table0[id]
              /\ \A p \in pushed : p.scheduleId # id
              /\ \A u \in updates : u.scheduleId # id
              /\ \A r \in Runs : id \notin SelectedIds(r)
\* two runs came later than 15 minutes after the start_time of an
\* enabled, unclaimed job: both have answered and the job is as it was
C33_Witness ==
    \E id \in JobIds :
        /\ table0[id].enabled /\ table0[id].last_executed_at = Null
        /\ \A r \in Runs :
              /\ pc[r] = "done" /\ scanned[r] # Null
              /\ Val(now[r]) > table0[id].start_time + 15
        /\ \E r, q \in Runs : Val(now[r]) < Val(now[q])
        /\ schedules[id] = table0[id]

\* C34: for runs that do not overlap in time and whose final updates all
\* succeed, each due occurrence of a job (a job together with one
\* start_time value) is pushed by at most one run: a second run started
\* after the first has finished, at the same or any later now, never
\* selects a job the first run committed for the same start_time.
C34_SequentialRunsOncePerOccurrence ==
    \A r, q \in Runs : \A id \in JobIds :
        (/\ ArrivedAfter(q, r)
         /\ id \in SelectedIds(r)
         /\ Committed(r, id)
         /\ scanned[q] # Null) =>
            /\ Val(now[q]) >= Val(now[r])
            /\ id \in SelectedIds(q) =>
                  ScannedRow(q, id).start_time # ScannedRow(r, id).start_time
            /\ \A p1, p2 \in pushed :
                  (/\ p1.run = r /\ p2.run = q
                   /\ p1.scheduleId = id /\ p2.scheduleId = id) =>
                      p1.start_time # p2.start_time
\* a run pushed and re-armed a daily job; a second run arrived after the
\* first had answered, with the old start_time still in its window, and
\* has answered without selecting the job
C34_Witness ==
    \E r, q \in Runs, id \in JobIds :
        /\ ArrivedAfter(q, r)
        /\ Committed(r, id)
        /\ PushesOf(r, id) # {}
        /\ ScannedRow(r, id).recurrence_pattern = "daily"
        /\ Rearmed(ScannedRow(r, id))
        /\ pc[q] = "done" /\ scanned[q] # Null
        /\ ScannedRow(r, id).start_time > Val(now[q]) - WindowMinutes
        /\ id \notin SelectedIds(q)

\* C35: for every recognized pattern and every weekly day set within 0..6,
\* the calculator's result is at least one full day after the last fire
\* time: exactly 1 day for daily, between 1 and 7 days for weekly, at least
\* 28 days for monthly; so for every now at which the due-scan selects the
\* last fire time (last fire time <= now < last fire time + 15 minutes) the
\* re-armed start_time is strictly later than now and outside the scan's
\* upper bound.
ElapsedDays == Day(NextFire) - Day(LastFire)
C35_NextAtLeastOneDayLater ==
    (calcCount > 0 /\ calcPattern \in Recognized) =>
        /\ calcNext # Null
        /\ NextFire >= LastFire + MinPerDay
        /\ NextFire - LastFire = ElapsedDays * MinPerDay
        /\ calcPattern = "daily" => ElapsedDays = 1
        /\ calcPattern = "weekly" => ElapsedDays \in 1..7
        /\ calcPattern = "monthly" => ElapsedDays >= 28
        /\ \A n \in LastFire..(LastFire + WindowMinutes - 1) :
              NextFire > n
\* a weekly job whose days are Monday and Friday has been moved from a
\* Wednesday to the Friday of the same week and then over the week end to
\* the Monday, 2 and 3 days on
C35_Witness ==
    /\ Applied("weekly")
    /\ calcDays = Some({1, 5})
    /\ calcCount >= 2
    /\ WeekdayOf(Day(LastFire)) = 5
    /\ ElapsedDays = 3
    /\ NextFire > LastFire + WindowMinutes

\* ------------------------------------------------------ the policy page
\* the ids of the default policies of a list
DefaultIds(list) == {policy.id : policy \in {p \in Elements(list) : p.isDefault}}
\* the step is a call of the handler `name`, or its continuation of that name
Step(name) == lastHandler' # Null /\ Val(lastHandler').name = name
\* the step shows the toast `toast`
Toasts(toast) == lastHandler' # Null /\ Val(lastHandler').toast = toast
\* the step leaves the lists alone, starts no service call and issues none
NothingDone ==
    /\ policies' = policies
    /\ geofences' = geofences
    /\ saving' = saving
    /\ deleting' = deleting
    /\ issued' = {}

\* C36: after any sequence of handleDeletePolicy and deleteSelectedPolicy
\* calls, whatever the order in which their service calls return, every
\* default policy that was loaded into the policies list is still in it,
\* and no deletePolicy call ever names a default policy; a
\* handleDeletePolicy(id) for a default policy of the list and a
\* deleteSelectedPolicy with a default policy selected change neither the
\* policies list nor the geofences, start no save and no delete and issue
\* no service call.
DefaultsKept ==
    /\ (loaded # Null /\ ~written) =>
          DefaultIds(Val(loaded)) \subseteq DefaultIds(policies)
    /\ \A call \in issued :
          (call.op = "deletePolicy" /\ loaded # Null) =>
              call.id \notin DefaultIds(Val(loaded))
DefaultRefused ==
    /\ \A id \in DefaultIds(policies) :
          (Step("handleDeletePolicy") /\ Val(lastHandler').id = Some(id)) =>
              NothingDone /\ Toasts("Cannot Delete Default Policy")
    /\ (/\ Step("deleteSelectedPolicy")
        /\ selectedPolicy # Null
        /\ Val(selectedPolicy).isDefault) =>
           NothingDone /\ Toasts("Cannot delete the default policy")
    /\ (Step("handleDeletePolicy") \/ Step("deleteSelectedPolicy")) =>
           DefaultIds(policies) \subseteq DefaultIds(policies')
C36_DefaultPolicyNeverDeleted == []DefaultsKept /\ [][DefaultRefused]_vars
\* a policy was deleted from the loaded list, and then the deletion of the
\* default policy was asked for and refused: it is still in the list
C36_Witness ==
    /\ loaded # Null
    /\ ~written
    /\ lastHandler # Null
    /\ Val(lastHandler).name = "handleDeletePolicy"
    /\ Val(lastHandler).toast = "Cannot Delete Default Policy"
    /\ Len(policies) < Len(Val(loaded))
    /\ saving = {}
    /\ \E policy \in Elements(policies) :
          policy.isDefault /\ Val(lastHandler).id = Some(policy.id)

\* C37: a handleDeletePolicy(id) that was confirmed (it reports "Policy
\* Deleted") was called on a non-default policy of the list, and when it
\* returns that policy is no longer in the policies list, every other
\* policy is in it as before and in the same order, no geofence has
\* zonePolicyId equal to id (each geofence that had it has null), and every
\* other geofence and every other field of every geofence is unchanged.
DeleteUnlinks ==
    \A id \in KnownIds :
        (/\ Step("handleDeletePolicy")
         /\ Val(lastHandler').id = Some(id)
         /\ Toasts("Policy Deleted")) =>
            /\ \E policy \in Elements(policies) :
                  policy.id = id /\ ~policy.isDefault
            /\ \A policy \in Elements(policies') : policy.id # id
            /\ LET Other(policy) == policy.id # id
               IN  policies' = SelectSeq(policies, Other)
            /\ DOMAIN geofences' = DOMAIN geofences
            /\ \A i \in DOMAIN geofences :
                  /\ geofences'[i].zonePolicyId # Some(id)
                  /\ geofences[i].zonePolicyId = Some(id) =>
                        geofences'[i].zonePolicyId = Null
                  /\ geofences[i].zonePolicyId # Some(id) =>
                        geofences'[i] = geofences[i]
                  /\ geofences'[i].id = geofences[i].id
                  /\ geofences'[i].name = geofences[i].name
                  /\ geofences'[i].radius = geofences[i].radius
C37_DeleteRemovesAndUnlinks == [][DeleteUnlinks]_vars
\* with two geofences on the page a policy was deleted after a confirm: its
\* save is in flight with the list it was taken from, one geofence is
\* linked to no policy and the other is still linked to a policy of the list
C37_Witness ==
    /\ lastHandler # Null
    /\ Val(lastHandler).name = "handleDeletePolicy"
    /\ Val(lastHandler).toast = "Policy Deleted"
    /\ \A policy \in Elements(policies) : Some(policy.id) # Val(lastHandler).id
    /\ \E call \in saving :
          /\ call.updatedPolicies = policies
          /\ \E policy \in Elements(call.policies) :
                Some(policy.id) = Val(lastHandler).id /\ ~policy.isDefault
    /\ Len(geofences) = 2
    /\ \E i, j \in DOMAIN geofences :
          /\ geofences[i].zonePolicyId = Null
          /\ \E policy \in Elements(policies) :
                geofences[j].zonePolicyId = Some(policy.id)

\* C38: handleCreatePolicy and handleUpdatePolicy never put into the
\* policies list, nor hand to savePolicies, a non-default policy that was
\* not there and has neither a GPS location nor an IP range: a create
\* whose fields give neither and an update whose editingPolicy is
\* non-default and has neither are rejected with the "Missing ..." toast,
\* and a call rejected with it leaves the policies list as it was, starts no
\* save and issues no service call.
HasPlace(policy) ==
    \/ Len(policy.locations) > 0
    \/ policy.ipRanges # Null /\ Len(Val(policy.ipRanges)) > 0
NothingSaved ==
    /\ policies' = policies
    /\ saving' = saving
    /\ issued' = {}
PlacedOrRejected ==
    /\ (Step("handleCreatePolicy") \/ Step("handleUpdatePolicy")) =>
          /\ \A policy \in Elements(policies') \ Elements(policies) :
                policy.isDefault \/ HasPlace(policy)
          /\ \A call \in saving' \ saving :
                \A policy \in Elements(call.updatedPolicies)
                                \ Elements(policies) :
                    policy.isDefault \/ HasPlace(policy)
          /\ (\/ Toasts("Missing Information")
              \/ Toasts("Missing Location Information")) => NothingSaved
    /\ \A policy \in Editable : \A editingPolicy \in Editings(policy) :
          (/\ handleUpdatePolicy(editingPolicy)
           /\ ~editingPolicy.isDefault
           /\ ~HasPlace(editingPolicy)) =>
              NothingSaved /\ Toasts("Missing Location Information")
    /\ \A newPolicyName \in PolicyNames, ipAddressInput \in IpAddressInputs,
          locationNameInput \in LocationNameInputs :
          (/\ handleCreatePolicy(newPolicyName, Null, ipAddressInput,
                                 locationNameInput)
           /\ (ipAddressInput = Null \/ Val(ipAddressInput) = " ")) =>
              NothingSaved /\ Toasts("Missing Information")
C38_NoPolicyWithoutPlace == [][PlacedOrRejected]_vars
\* the edit dialog was saved for a policy of the list that has an IP
\* address, with its IP addresses removed and no location: the update was
\* rejected, the policy is in the list as it was and no save is in flight
C38_Witness ==
    /\ lastHandler # Null
    /\ Val(lastHandler).name = "handleUpdatePolicy"
    /\ Val(lastHandler).toast = "Missing Location Information"
    /\ saving = {}
    /\ issued = {}
    /\ loaded # Null
    /\ policies = Val(loaded)
    /\ \E policy \in Elements(policies) :
          /\ Some(policy.id) = Val(lastHandler).id
          /\ ~policy.isDefault
          /\ policy.locations = <<>>
          /\ policy.ipRanges # Null
          /\ Len(Val(policy.ipRanges)) > 0

====
